---- MODULE Spec2Model ----
(***************************************************************************)
(* A model of one run of oktaws: runWebAuth validates the configuration,   *)
(* Authenticate dispatches to the OIDC flow or to the browser-SAML flow,   *)
(* and the browser-SAML flow runs a CallbackServer whose HTTP handlers     *)
(* (one goroutine per request) race with the primary path that blocks in   *)
(* WaitForSAML.                                                            *)
(***************************************************************************)
EXTENDS Integers, Sequences, FiniteSets, TLC

\* ------------------------------------------------------------------ bounds

\* How many HTTP requests reach the callback server in one run.
MaxRequests == 2

\* How many token requests the device-flow poller sends in one run.
MaxPolls == 2

\* How many Attribute and AttributeValue elements an assertion holds.
MaxElements == 4

\* How many grants the list handed to selectRole holds.
MaxRoles == 3

\* How many characters a line typed at the prompt, or the value of a flag,
\* holds.
MaxInput == 2

\* ------------------------------------------------------------------ state

VARIABLES
    cfg,            \* the Config the run works with
    pc,             \* where the primary path is
    result,         \* what the run returned ("none" while it runs)
    subResult,      \* what the sub-flow Authenticate invoked returned to it
    netSent,        \* a network request to the identity provider was sent
    listener,       \* the TCP listener of the CallbackServer
    serve_pc,       \* the goroutine of Start that runs server.Serve
    deferred,       \* defer server.Shutdown() is registered
    shutdownCalled, \* Shutdown was invoked
    samlChan,       \* CallbackServer.samlChan, capacity 1
    errChan,        \* CallbackServer.errChan, capacity 1
    gotSAML,        \* CallbackServer.gotSAML
    reqs,           \* the HTTP requests received so far, each with its handler's position
    w_pc,           \* WaitForSAML: "idle", "blocked" (in its select) or "returned"
    w_result,       \* what WaitForSAML returned
    first,          \* history: the first of the three wait events that happened
    eventsAtEntry,  \* history: the events already pending when WaitForSAML was entered
    openedWhile,    \* history: the server's state when openBrowser was called
    invoked,        \* history: the sub-flows Authenticate invoked, in order
    flags,          \* the switches of the Config, once the OIDC flow has read them
    deviceAuth,     \* the device-authorization response, with how the request ended
    deviceRequests, \* how many device-authorization requests were sent
    written,        \* the data written to stdout or stderr so far
    displayed,      \* displayAuthorizationURL has run
    ticker,         \* the interval of the poller's ticker, <<>> before it exists
    tickerC,        \* ticker.C, capacity 1, holds a tick
    timeout,        \* the timer of time.After: "unset", "armed" or "fired"
    inflight,       \* the token requests sent and not yet answered
    polls,          \* the token requests sent so far
    lastResp,       \* history: the outcome of the latest poll attempt
    assertion,      \* the assertion handed to extractRolesFromSAML
    extracted,      \* what extractRolesFromSAML returned
    roles,          \* the grants handed to selectRole
    stdin,          \* the line the user types when asked for a role
    selected,       \* what selectRole returned
    scanned,        \* selectRole has read from stdin
    exchange,       \* the calls of AssumeRoleWithSAML, each with its input and outcome
    calls,          \* history: the stages of the flow invoked after the assertion
    output          \* what outputCredentials emitted, each with its destination and form

cfgVars == <<cfg>>
flowVars == <<pc, result, subResult, netSent>>
srvVars == <<listener, serve_pc, deferred, shutdownCalled, samlChan, errChan, gotSAML>>
reqVars == <<reqs>>
waitVars == <<w_pc, w_result, first, eventsAtEntry>>
histVars == <<openedWhile>>
devVars == <<flags, deviceAuth, deviceRequests, written, displayed>>
pollVars == <<ticker, tickerC, timeout, inflight, polls, lastResp>>
extractVars == <<assertion, extracted>>
selectVars == <<roles, stdin, selected, scanned>>
stageVars == <<exchange, calls, output>>
oidcVars == <<invoked, devVars, pollVars, extractVars, selectVars, stageVars>>
vars == <<cfg, pc, result, subResult, netSent, listener, serve_pc, deferred, shutdownCalled,
          samlChan, errChan, gotSAML, reqs, w_pc, w_result, first, eventsAtEntry,
          openedWhile, oidcVars>>

\* ------------------------------------------------------------ configuration

\* The values a flag, an environment variable or the config file can give.
AuthFlows == {"", "auto", "oidc", "saml-browser", "saml_browser", "bogus"}
OrgDomains == {"", "example.okta.com"}
ClientIDs == {"", "0oaCLIENT"}
AppIDs == {"", "0oaAPP"}

\* A string that is parsed or searched is modelled by its characters, or by
\* the pieces a search can tell apart, in order.
Chars == {"0", "1", "2", "3", "4", "-", "x"}

\* The lines of at most MaxInput characters.
Lines == UNION {[1..n -> Chars] : n \in 0..MaxInput}

DigitChars == <<"0", "1", "2", "3", "4", "5", "6", "7", "8", "9">>

\* The digits of a base, as characters.
DigitsOf(base) == {DigitChars[i] : i \in 1..(IF base = 8 THEN 8 ELSE 10)}

DigitValue(ch) == (CHOOSE i \in DOMAIN DigitChars : DigitChars[i] = ch) - 1

\* The longest run of digits of the base at the head of str.
RECURSIVE DigitRun(_, _)
DigitRun(str, base) ==
    IF str = <<>> \/ Head(str) \notin DigitsOf(base) THEN <<>>
    ELSE <<Head(str)>> \o DigitRun(Tail(str), base)

\* The number a run of digits denotes in the base.
RECURSIVE ValueOf(_, _)
ValueOf(run, base) ==
    IF run = <<>> THEN 0
    ELSE ValueOf(SubSeq(run, 1, Len(run) - 1), base) * base + DigitValue(run[Len(run)])

\* The sign at the head of str, if there is one, and what follows it.
Signed(str) == str # <<>> /\ Head(str) \in {"+", "-"}
Unsigned(str) == IF Signed(str) THEN Tail(str) ELSE str
SignOf(str) == IF str # <<>> /\ Head(str) = "-" THEN -1 ELSE 1

\* strconv.Atoi: an optional sign and decimal digits, nothing else.
Atoi(str) ==
    IF Unsigned(str) = <<>> \/ DigitRun(Unsigned(str), 10) # Unsigned(str)
    THEN [value |-> 0, err |-> "invalid syntax"]
    ELSE [value |-> SignOf(str) * ValueOf(Unsigned(str), 10), err |-> "nil"]

\* The session durations the config file can hold (0 when it holds none).
FileDurations == {0, 900, 3600, -1, -3600}

\* The role preferences: none, one that names one role, one that names two,
\* one that names none.
Preferences == {<<>>, <<"Admin">>, <<"Only">>, <<"Power">>}

\* The configurations of a run that leaves the role preference and the
\* session duration unset.
\* The profiles the config file, --profile or OKTA_AWSCLI_PROFILE can give
\* ("" when none does).
Profiles == {"", "default", "dev"}

\* The formats the config file, --format or OKTA_AWSCLI_FORMAT can give
\* ("" when none does).
Formats == {"", "env-var", "env", "json", "yaml"}

RawConfigs ==
    [AuthFlow : AuthFlows, OrgDomain : OrgDomains,
     OIDCClientID : ClientIDs, AWSAcctFedAppID : AppIDs,
     AWSIAMRole : {<<>>}, SessionDuration : {0}, ViperSessionDuration : {<<>>},
     Profile : {""}, Format : {""}, WriteAWSCredentials : {FALSE}]

\* MergeWithViper: a value of aws-session-duration that Atoi accepts
\* replaces the duration of the config file.
MergedSessionDuration(c) ==
    IF c.ViperSessionDuration # <<>> /\ Atoi(c.ViperSessionDuration).err = "nil"
    THEN Atoi(c.ViperSessionDuration).value
    ELSE c.SessionDuration

\* NewConfig: a session duration of zero defaults to 3600, an empty profile
\* to "default", an empty format to "env-var" and an empty auth flow to
\* "auto".
NewConfigOf(c) ==
    [c EXCEPT !.AuthFlow = IF c.AuthFlow = "" THEN "auto" ELSE c.AuthFlow,
              !.SessionDuration = IF MergedSessionDuration(c) = 0 THEN 3600
                                  ELSE MergedSessionDuration(c),
              !.Profile = IF c.Profile = "" THEN "default" ELSE c.Profile,
              !.Format = IF c.Format = "" THEN "env-var" ELSE c.Format]

\* detectAuthFlow
detectAuthFlow(c) ==
    IF c.OIDCClientID # "" THEN "oidc"
    ELSE IF c.AWSAcctFedAppID # "" THEN "saml-browser"
    ELSE "oidc"

\* The flow runWebAuth validates the prerequisites of: on "auto" it has no
\* final else, so with neither id configured the flow stays "auto".
runWebAuthFlow(c) ==
    IF c.AuthFlow = "auto"
    THEN IF c.OIDCClientID # "" THEN "oidc"
         ELSE IF c.AWSAcctFedAppID # "" THEN "saml-browser"
         ELSE "auto"
    ELSE c.AuthFlow

\* runWebAuth's checks, in order: the error it returns, or "none".
runWebAuthError(c) ==
    IF c.OrgDomain = "" THEN "config: org-domain is required"
    ELSE IF runWebAuthFlow(c) = "oidc" /\ c.OIDCClientID = ""
         THEN "config: oidc-client-id is required"
    ELSE IF runWebAuthFlow(c) = "saml-browser" /\ c.AWSAcctFedAppID = ""
         THEN "config: aws-acct-fed-app-id is required"
    ELSE "none"

\* A variant of AuthenticateFlow that never consults detectAuthFlow.
AuthenticateFlowAsConfigured(c) == c.AuthFlow

\* The flow Authenticate dispatches to.
AuthenticateFlow(c) ==
    IF c.AuthFlow = "auto" THEN detectAuthFlow(c) ELSE c.AuthFlow

\* The checks at the head of AuthenticateWithBrowser.
BrowserConfigError(c) ==
    IF c.OrgDomain = "" THEN "config: org-domain is required for browser authentication"
    ELSE IF c.AWSAcctFedAppID = ""
         THEN "config: aws-acct-fed-app-id is required for browser authentication"
    ELSE "none"

ConfigErrors ==
    {"config: org-domain is required",
     "config: oidc-client-id is required",
     "config: aws-acct-fed-app-id is required",
     "config: org-domain is required for browser authentication",
     "config: aws-acct-fed-app-id is required for browser authentication"}

\* ------------------------------------------------- durations and switches

\* An int64 is modelled by its eight bytes in two's complement, the least
\* significant first, so that arithmetic wraps as the machine's does.
RECURSIVE BytesOf(_, _)
BytesOf(n, k) == IF k = 0 THEN <<>> ELSE <<n % 256>> \o BytesOf(n \div 256, k - 1)

Int64(n) == BytesOf(n, 8)

ByteAt(x, i) == IF i \in DOMAIN x THEN x[i] ELSE 0

\* The sum of the byte products that fall on byte k of x * y.
RECURSIVE ColumnSum(_, _, _, _)
ColumnSum(x, y, k, i) ==
    IF i > k THEN 0 ELSE ByteAt(x, i) * ByteAt(y, k + 1 - i) + ColumnSum(x, y, k, i + 1)

\* The low n bytes of x * y, from byte k on, with the carry into byte k.
RECURSIVE MulBytes(_, _, _, _, _)
MulBytes(x, y, n, k, carry) ==
    IF k > n THEN <<>>
    ELSE <<(ColumnSum(x, y, k, 1) + carry) % 256>>
         \o MulBytes(x, y, n, k + 1, (ColumnSum(x, y, k, 1) + carry) \div 256)

\* time.Second, a Duration of 1000000000 nanoseconds (0x3B9ACA00).
Second == <<0, 202, 154, 59, 0, 0, 0, 0>>

\* time.Duration(n) * time.Second: an int64 product, which wraps.
Seconds(n) == MulBytes(n, Second, 8, 1, 0)

\* d <= 0, for which time.NewTicker panics.
NewTickerPanics(d) == d[8] >= 128 \/ d = Int64(0)

\* A variant of interval without the default for zero.
intervalNoDefault(da) == Seconds(da.Interval)

\* The tick interval pollForAccessToken computes: the provider's seconds as
\* a Duration, and five seconds if that Duration is zero.
interval(da) ==
    IF Seconds(da.Interval) = Int64(0) THEN Seconds(Int64(5)) ELSE Seconds(da.Interval)

\* 9223372036, the most seconds whose nanoseconds fit an int64.
MaxSeconds == <<4, 125, 193, 37, 2, 0, 0, 0>>

\* The interval values of a device-authorization response: none, a usual
\* one, a negative one, the largest whose nanoseconds fit, the next one
\* (whose nanoseconds wrap below 0) and 2^55 (whose nanoseconds wrap to 0).
Intervals ==
    {Int64(0), Int64(5), Int64(-1), MaxSeconds,
     <<5, 125, 193, 37, 2, 0, 0, 0>>, <<0, 0, 0, 0, 0, 0, 128, 0>>}

\* Debug, DebugAPICalls and OpenBrowser of the Config.
Switches == [read : {FALSE}, Debug : BOOLEAN, DebugAPICalls : BOOLEAN, OpenBrowser : BOOLEAN]

NoSwitches == [read |-> FALSE, Debug |-> FALSE, DebugAPICalls |-> FALSE, OpenBrowser |-> FALSE]

NoDeviceAuth == [outcome |-> "none", Interval |-> Int64(0)]

NoResponse == [kind |-> "none", token |-> "", error |-> ""]

\* ------------------------------------------------------- role extraction

\* The Name of the attribute that lists the roles.
RoleAttribute == "https://aws.amazon.com/SAML/Attributes/Role"

RoleArn == "arn:aws:iam::123456789012:role/Admin"
PrincipalArn == "arn:aws:iam::123456789012:saml-provider/Okta"

\* A string is modelled by its pieces in order: its commas and the
\* stretches without a comma between them.  These are the texts of an
\* AttributeValue: empty, one ARN, role and principal in either order, a
\* trailing comma, two principals, two roles, three parts.
AttributeValues ==
    {<<>>, <<RoleArn>>, <<RoleArn, ",", PrincipalArn>>, <<PrincipalArn, ",", RoleArn>>,
     <<RoleArn, ",">>, <<PrincipalArn, ",", PrincipalArn>>, <<RoleArn, ",", RoleArn>>,
     <<RoleArn, ",", PrincipalArn, ",", PrincipalArn>>}

\* The elements of an AttributeStatement in document order: an Attribute
\* opens with its Name, an AttributeValue carries its text.
Elements ==
    {[tag |-> "Attribute", Name |-> n, Value |-> <<>>] : n \in {RoleAttribute, "other"}}
    \cup {[tag |-> "AttributeValue", Name |-> "", Value |-> v] : v \in AttributeValues}

Documents == UNION {[1..n -> Elements] : n \in 0..MaxElements}

\* The assertions: one that is not base64, one that is not the XML of a
\* Response, and those that decode and parse.
Assertions ==
    {[decodes |-> FALSE, parses |-> FALSE, doc |-> <<>>],
     [decodes |-> TRUE, parses |-> FALSE, doc |-> <<>>]}
    \cup [decodes : {TRUE}, parses : {TRUE}, doc : Documents]

NoAssertion == [decodes |-> FALSE, parses |-> FALSE, doc |-> <<>>]

NotExtracted == [roles |-> <<>>, err |-> "not called"]

\* xml.Unmarshal into samlResponse: the Attributes in order, each with the
\* AttributeValues that stand under it; an AttributeValue under no Attribute
\* is not decoded.
RECURSIVE Attributes(_)
Attributes(doc) ==
    IF doc = <<>> THEN <<>>
    ELSE LET before == Attributes(SubSeq(doc, 1, Len(doc) - 1))
             last == doc[Len(doc)]
         IN  IF last.tag = "Attribute"
             THEN Append(before, [Name |-> last.Name, AttributeValue |-> <<>>])
             ELSE IF before = <<>> THEN before
             ELSE [before EXCEPT ![Len(before)].AttributeValue = Append(@, last.Value)]

\* A variant of Split that cuts at the first comma only.
RECURSIVE SplitAtFirst(_)
SplitAtFirst(str) ==
    IF str = <<>> THEN << <<>> >>
    ELSE IF Head(str) = "," THEN << <<>>, Tail(str) >>
    ELSE << <<Head(str)>> \o Head(SplitAtFirst(Tail(str))) >> \o Tail(SplitAtFirst(Tail(str)))

\* strings.Split(str, ","): the parts of str between its commas.
RECURSIVE Split(_)
Split(str) ==
    IF str = <<>> THEN << <<>> >>
    ELSE IF Head(str) = "," THEN << <<>> >> \o Split(Tail(str))
    ELSE << <<Head(str)>> \o Head(Split(Tail(str))) >> \o Tail(Split(Tail(str)))

\* A variant of ContainsRoleMarker that finds the marker in no part.
ContainsNoMarker(part) == FALSE

\* strings.Contains(part, ":role/")
ContainsRoleMarker(part) == \E i \in DOMAIN part : part[i] = RoleArn

\* The awsRole of one AttributeValue, if it splits into exactly two parts.
RolesOfValue(v) ==
    IF Len(Split(v)) = 2
    THEN IF ContainsRoleMarker(Split(v)[1])
         THEN <<[RoleARN |-> Split(v)[1], PrincipalARN |-> Split(v)[2]]>>
         ELSE <<[RoleARN |-> Split(v)[2], PrincipalARN |-> Split(v)[1]]>>
    ELSE <<>>

\* A variant of RolesOfValues that looks at the first value only.
RolesOfFirstValue(vs) ==
    IF vs = <<>> THEN <<>> ELSE RolesOfValue(Head(vs))

\* The loop over the values of one attribute.
RECURSIVE RolesOfValues(_)
RolesOfValues(vs) ==
    IF vs = <<>> THEN <<>> ELSE RolesOfValue(Head(vs)) \o RolesOfValues(Tail(vs))

\* The loop over the attributes: only the Role attribute is looked at.
RECURSIVE RolesOfAttributes(_)
RolesOfAttributes(attrs) ==
    IF attrs = <<>> THEN <<>>
    ELSE (IF Head(attrs).Name = RoleAttribute
          THEN RolesOfValues(Head(attrs).AttributeValue) ELSE <<>>)
         \o RolesOfAttributes(Tail(attrs))

\* extractRolesFromSAML: the roles and the error it returns.
extractRolesFromSAML(samlAssertion) ==
    IF ~samlAssertion.decodes THEN [roles |-> <<>>, err |-> "failed to decode SAML"]
    ELSE IF ~samlAssertion.parses THEN [roles |-> <<>>, err |-> "failed to parse SAML XML"]
    ELSE IF Len(RolesOfAttributes(Attributes(samlAssertion.doc))) = 0
         THEN [roles |-> <<>>, err |-> "no IAM roles found in SAML assertion"]
    ELSE [roles |-> RolesOfAttributes(Attributes(samlAssertion.doc)), err |-> "nil"]

\* extractRolesFromSAML is called with the assertion.
ExtractRoles ==
    /\ pc = "extractRolesFromSAML"
    /\ extracted = NotExtracted
    /\ extracted' = extractRolesFromSAML(assertion)
    /\ UNCHANGED <<cfg, pc, result, subResult, netSent, assertion>>
    /\ UNCHANGED <<srvVars, reqVars, waitVars, histVars, invoked, devVars, pollVars>>
    /\ UNCHANGED <<selectVars, stageVars>>

\* --------------------------------------------------------- role selection

\* The grants selectRole is handed: a role ARN is the prefix that all share
\* and the pieces of its name.
RolePrefix == "arn:aws:iam::123456789012:role/"
OtherPrincipalArn == "arn:aws:iam::123456789012:saml-provider/Other"

Grants ==
    {[RoleARN |-> <<RolePrefix, "Admin">>, PrincipalARN |-> <<PrincipalArn>>],
     [RoleARN |-> <<RolePrefix, "Read", "Only">>, PrincipalARN |-> <<OtherPrincipalArn>>],
     [RoleARN |-> <<RolePrefix, "Only">>, PrincipalARN |-> <<PrincipalArn>>]}

\* The lists extractRolesFromSAML can return without an error: not empty.
RoleLists == UNION {[1..n -> Grants] : n \in 1..MaxRoles}

NotSelected == [RoleARN |-> <<>>, PrincipalARN |-> <<>>, err |-> "not called"]

\* strings.Contains(str, substr)
Contains(str, substr) ==
    \E i \in 0..(Len(str) - Len(substr)) : SubSeq(str, i + 1, i + Len(substr)) = substr

\* fmt.Scanln(&choice) on the line typed: whether choice was stored into,
\* the number stored, and the error Scanln returns.  A leading "0" makes the
\* digits octal and a leading "0x" hexadecimal; what follows the number is
\* an error, but the number is stored all the same.
Scanln(line) ==
    LET body == Unsigned(line)
        zero == body # <<>> /\ Head(body) = "0"
        hex == zero /\ Len(body) > 1 /\ body[2] = "x"
        base == IF hex THEN 16 ELSE IF zero THEN 8 ELSE 10
        rest == IF hex THEN Tail(Tail(body)) ELSE IF zero THEN Tail(body) ELSE body
        run == DigitRun(rest, base)
    IN  IF line = <<>> THEN [stored |-> FALSE, value |-> 0, err |-> "unexpected newline"]
        ELSE IF ~zero /\ run = <<>>
             THEN [stored |-> FALSE, value |-> 0, err |-> "expected integer"]
        ELSE IF hex /\ run = <<>>
             THEN [stored |-> FALSE, value |-> 0, err |-> "invalid syntax"]
        ELSE [stored |-> TRUE,
              value |-> SignOf(line) * ValueOf(run, base),
              err |-> IF Len(run) = Len(rest) THEN "nil" ELSE "expected newline"]

\* `var choice int` after fmt.Scanln(&choice), whose error is dropped.
scannedChoice(line) == IF Scanln(line).stored THEN Scanln(line).value ELSE 0

\* A variant of choiceOf in which zero is not replaced by one.
choiceWithoutDefault(line) == scannedChoice(line)

\* The choice selectRole works with: 1 in place of 0.
choiceOf(line) == IF scannedChoice(line) = 0 THEN 1 ELSE scannedChoice(line)

\* A variant of firstMatch that takes the last grant that matches.
lastMatch(c, rs) ==
    CHOOSE i \in DOMAIN rs :
        /\ Contains(rs[i].RoleARN, c.AWSIAMRole)
        /\ \A j \in DOMAIN rs : Contains(rs[j].RoleARN, c.AWSIAMRole) => j <= i

\* The loop over the roles: the first whose RoleARN contains the preference.
firstMatch(c, rs) ==
    CHOOSE i \in DOMAIN rs :
        /\ Contains(rs[i].RoleARN, c.AWSIAMRole)
        /\ \A j \in DOMAIN rs : Contains(rs[j].RoleARN, c.AWSIAMRole) => i <= j

\* What selectRole returns when it ends without an error.
Chosen(role, asked) ==
    [RoleARN |-> role.RoleARN, PrincipalARN |-> role.PrincipalARN, err |-> "nil",
     asked |-> asked]

\* What selectRole returns when it ends with an error.
Refused(err, asked) ==
    [RoleARN |-> <<>>, PrincipalARN |-> <<>>, err |-> err, asked |-> asked]

\* A variant of selectRole that falls back to the only grant when the
\* preference matches none.
selectRoleWithFallback(c, rs, line) ==
    IF c.AWSIAMRole # <<>> /\ (\E i \in DOMAIN rs : Contains(rs[i].RoleARN, c.AWSIAMRole))
    THEN Chosen(rs[firstMatch(c, rs)], FALSE)
    ELSE IF Len(rs) = 1 THEN Chosen(rs[1], FALSE)
    ELSE IF c.AWSIAMRole # <<>>
         THEN Refused("configured role not found in available roles", FALSE)
    ELSE IF choiceOf(line) < 1 \/ choiceOf(line) > Len(rs)
         THEN Refused("invalid role selection", TRUE)
    ELSE Chosen(rs[choiceOf(line)], TRUE)

\* A variant of selectRole that asks even when there is one grant only.
selectRoleAlwaysAsking(c, rs, line) ==
    IF c.AWSIAMRole # <<>>
    THEN IF \E i \in DOMAIN rs : Contains(rs[i].RoleARN, c.AWSIAMRole)
         THEN Chosen(rs[firstMatch(c, rs)], FALSE)
         ELSE Refused("configured role not found in available roles", FALSE)
    ELSE IF choiceOf(line) < 1 \/ choiceOf(line) > Len(rs)
         THEN Refused("invalid role selection", TRUE)
    ELSE Chosen(rs[choiceOf(line)], TRUE)

\* selectRole: the grant and the error it returns, and whether it listed the
\* roles and read the choice from stdin.
selectRole(c, rs, line) ==
    IF c.AWSIAMRole # <<>>
    THEN IF \E i \in DOMAIN rs : Contains(rs[i].RoleARN, c.AWSIAMRole)
         THEN Chosen(rs[firstMatch(c, rs)], FALSE)
         ELSE Refused("configured role not found in available roles", FALSE)
    ELSE IF Len(rs) = 1 THEN Chosen(rs[1], FALSE)
    ELSE IF choiceOf(line) < 1 \/ choiceOf(line) > Len(rs)
         THEN Refused("invalid role selection", TRUE)
    ELSE Chosen(rs[choiceOf(line)], TRUE)

\* ------------------------------------------------------------------- Init

NoResult == [kind |-> "none", val |-> ""]

Init ==
    /\ cfg \in RawConfigs
    /\ pc = "NewConfig"
    /\ result = "none"
    /\ subResult = "none"
    /\ netSent = FALSE
    /\ listener = "unbound"
    /\ serve_pc = "none"
    /\ deferred = FALSE
    /\ shutdownCalled = FALSE
    /\ samlChan = <<>>
    /\ errChan = <<>>
    /\ gotSAML = FALSE
    /\ reqs = <<>>
    /\ w_pc = "idle"
    /\ w_result = NoResult
    /\ first = "none"
    /\ eventsAtEntry = {}
    /\ openedWhile = "never"
    /\ invoked = <<>>
    /\ flags = NoSwitches
    /\ deviceAuth = NoDeviceAuth
    /\ deviceRequests = 0
    /\ written = {}
    /\ displayed = FALSE
    /\ ticker = <<>>
    /\ tickerC = FALSE
    /\ timeout = "unset"
    /\ inflight = 0
    /\ polls = 0
    /\ lastResp = NoResponse
    /\ assertion = NoAssertion
    /\ extracted = NotExtracted
    /\ roles = <<>>
    /\ stdin = <<>>
    /\ selected = NotSelected
    /\ scanned = FALSE
    /\ exchange = <<>>
    /\ calls = <<>>
    /\ output = <<>>

\* ------------------------------------------------------ returns and defers

\* A variant of RunsShutdown whose defer is registered only after the
\* extension has been installed.
RunsShutdownAfterInstall(path) == deferred /\ path # "install"

\* Whether the deferred Shutdown runs when the flow returns on `path`.
RunsShutdown(path) == deferred

\* What Authenticate hands to its caller when the sub-flow it invoked has
\* returned `sub`: `return a.AuthenticateWithOIDC()`, `return
\* a.AuthenticateWithBrowser()`.
AuthenticateReturns(sub) == sub

\* The paths that return before any sub-flow is entered.
OwnPaths == {"runWebAuth", "Authenticate"}

\* The primary path returns `res` on `path`; the deferred Shutdown closes the
\* listener and makes Serve return ErrServerClosed, which is not reported.
\* A return from inside a sub-flow reaches the caller through Authenticate.
Return(path, res) ==
    /\ pc' = "done"
    /\ IF path \in OwnPaths
       THEN /\ result' = res
            /\ UNCHANGED subResult
       ELSE /\ subResult' = res
            /\ result' = AuthenticateReturns(res)
    /\ IF RunsShutdown(path)
       THEN /\ shutdownCalled' = TRUE
            /\ listener' = "closed"
            /\ serve_pc' = IF serve_pc \in {"spawned", "accepting"} THEN "closed" ELSE serve_pc
       ELSE UNCHANGED <<shutdownCalled, listener, serve_pc>>

\* ------------------------------------------------------------ primary path

NewConfig ==
    /\ pc = "NewConfig"
    /\ cfg' = NewConfigOf(cfg)
    /\ pc' = "runWebAuth"
    /\ UNCHANGED <<result, subResult, netSent>>
    /\ UNCHANGED <<srvVars, reqVars, waitVars, histVars, oidcVars>>

runWebAuth ==
    /\ pc = "runWebAuth"
    /\ IF runWebAuthError(cfg) # "none"
       THEN Return("runWebAuth", runWebAuthError(cfg))
       ELSE /\ pc' = "Authenticate"
            /\ UNCHANGED <<result, subResult, shutdownCalled, listener, serve_pc>>
    /\ UNCHANGED <<cfg, netSent, deferred, samlChan, errChan, gotSAML>>
    /\ UNCHANGED <<reqVars, waitVars, histVars, oidcVars>>

Authenticate ==
    /\ pc = "Authenticate"
    /\ IF AuthenticateFlow(cfg) = "oidc"
       THEN /\ pc' = "startDeviceAuthorization"
            /\ invoked' = Append(invoked, "AuthenticateWithOIDC")
            /\ UNCHANGED <<result, subResult, shutdownCalled, listener, serve_pc>>
       ELSE IF AuthenticateFlow(cfg) \in {"saml-browser", "saml_browser"}
       THEN /\ pc' = "AuthenticateWithBrowser"
            /\ invoked' = Append(invoked, "AuthenticateWithBrowser")
            /\ UNCHANGED <<result, subResult, shutdownCalled, listener, serve_pc>>
       ELSE /\ Return("Authenticate", "unknown authentication flow")
            /\ UNCHANGED invoked
    /\ UNCHANGED <<cfg, netSent, deferred, samlChan, errChan, gotSAML>>
    /\ UNCHANGED <<reqVars, waitVars, histVars, devVars, pollVars, extractVars, selectVars, stageVars>>

\* ------------------------------------------------------------- OIDC flow

\* The flow goes on to its next step.
Goto(next) ==
    /\ pc' = next
    /\ UNCHANGED <<result, subResult, shutdownCalled, listener, serve_pc>>

\* An unrecovered panic ends the process: nothing is returned.
Panic ==
    /\ pc' = "panicked"
    /\ UNCHANGED <<result, subResult, shutdownCalled, listener, serve_pc>>

\* What startDeviceAuthorization can meet: http.NewRequest fails, Do fails,
\* the status is not 200, the body does not parse, or all is well.
DeviceOutcomes ==
    {"request error", "transport error", "status not 200", "unparsable body", "ok"}

\* The fields of a device-authorization response.
DeviceAuthFields ==
    {"device_code", "user_code", "verification_uri", "verification_uri_complete",
     "expires_in", "interval"}

\* What the body read from the response holds.
ResponseBody(outcome) ==
    CASE outcome = "ok" -> DeviceAuthFields
      [] outcome \in {"status not 200", "unparsable body"} -> {"provider message"}
      [] OTHER -> {}

\* What startDeviceAuthorization writes to stderr: with DebugAPICalls, the
\* request body and then the status and the whole body of the response.
DebugDump(sw, outcome) ==
    IF sw.DebugAPICalls THEN {"client_id", "scope"} \cup ResponseBody(outcome) ELSE {}

\* A variant of Succeeded that does not look at the status.
SucceededWhateverStatus(outcome) == outcome \in {"ok", "status not 200"}

\* startDeviceAuthorization returns a response and no error.
Succeeded(outcome) == outcome = "ok"

\* startDeviceAuthorization: unless the request cannot even be built, one
\* POST goes to the identity provider; anything but a 200 with a body that
\* parses ends the flow.  The switches of the Config are drawn here, where
\* the flow first reads one.
startDeviceAuthorization ==
    /\ pc = "startDeviceAuthorization"
    /\ \E sw \in Switches, outcome \in DeviceOutcomes, seconds \in Intervals :
        /\ flags' = [sw EXCEPT !.read = TRUE]
        /\ netSent' = (outcome # "request error")
        /\ deviceRequests' = deviceRequests + (IF outcome = "request error" THEN 0 ELSE 1)
        /\ written' = written \cup DebugDump(sw, outcome)
        /\ IF Succeeded(outcome)
           THEN /\ deviceAuth' = [outcome |-> outcome, Interval |-> seconds]
                /\ Goto("displayAuthorizationURL")
           ELSE /\ deviceAuth' = [outcome |-> outcome, Interval |-> Int64(0)]
                /\ Return("startDeviceAuthorization", "device authorization failed")
    /\ UNCHANGED <<cfg, deferred, samlChan, errChan, gotSAML>>
    /\ UNCHANGED <<reqVars, waitVars, histVars, extractVars, selectVars, stageVars, invoked, displayed, pollVars>>

\* What becomes of opening the browser: it is not asked for, openBrowser
\* starts the command, or openBrowser returns an error.
BrowserOutcomes(sw) == IF sw.OpenBrowser THEN {"started", "failed"} ELSE {"disabled"}

\* A variant of displayReturns that hands on the error of openBrowser.
displayReturnsBrowserError(opened) ==
    IF opened = "failed" THEN "failed to open browser" ELSE "nil"

\* What displayAuthorizationURL returns: nil, whatever became of the browser.
displayReturns(opened) == "nil"

\* displayAuthorizationURL: the two verification URIs and the user code go
\* to stdout; with OpenBrowser the browser is started, and a failure to
\* start it is a warning on stderr under Debug.  AuthenticateWithOIDC
\* returns what it returns if that is an error, and calls
\* pollForAccessToken otherwise.
displayAuthorizationURL ==
    /\ pc = "displayAuthorizationURL"
    /\ \E opened \in BrowserOutcomes(flags) :
        /\ written' = written \cup {"verification_uri_complete", "verification_uri", "user_code"}
                        \cup (IF opened = "failed" /\ flags.Debug
                              THEN {"open browser warning"} ELSE {})
        /\ IF displayReturns(opened) # "nil"
           THEN Return("displayAuthorizationURL", displayReturns(opened))
           ELSE Goto("pollForAccessToken")
    /\ displayed' = TRUE
    /\ UNCHANGED <<cfg, netSent, deferred, samlChan, errChan, gotSAML>>
    /\ UNCHANGED <<reqVars, waitVars, histVars, extractVars, selectVars, stageVars, invoked, flags, deviceAuth, deviceRequests,
                   pollVars>>

\* pollForAccessToken up to its loop: the tick interval, the deadline timer
\* and the ticker, which time.NewTicker refuses to create with a panic.
pollForAccessToken ==
    /\ pc = "pollForAccessToken"
    /\ timeout' = "armed"
    /\ IF NewTickerPanics(interval(deviceAuth))
       THEN /\ Panic
            /\ UNCHANGED ticker
       ELSE /\ ticker' = interval(deviceAuth)
            /\ Goto("select")
    /\ UNCHANGED <<cfg, netSent, deferred, samlChan, errChan, gotSAML>>
    /\ UNCHANGED <<reqVars, waitVars, histVars, extractVars, selectVars, stageVars, invoked, devVars,
                   tickerC, inflight, polls, lastResp>>

\* A variant of Selecting for a loop that would not wait for its request.
SelectingOrBusy == pc \in {"select", "Do"}

\* The poller is at the select of its loop: no request of its own is out.
Selecting == pc = "select"

\* The ticker is running: from its creation until the deferred Stop.
Polling == pc \in {"select", "Do"}

\* The ticker puts a tick into its channel of capacity 1; a tick that finds
\* the channel full is dropped.
tickerTick ==
    /\ Polling
    /\ ~tickerC
    /\ tickerC' = TRUE
    /\ UNCHANGED <<cfg, pc, result, subResult, netSent>>
    /\ UNCHANGED <<srvVars, reqVars, waitVars, histVars, extractVars, selectVars, stageVars, invoked, devVars,
                   ticker, timeout, inflight, polls, lastResp>>

\* The timer of time.After(expires_in) fires.
timeoutFire ==
    /\ Polling
    /\ timeout = "armed"
    /\ timeout' = "fired"
    /\ UNCHANGED <<cfg, pc, result, subResult, netSent>>
    /\ UNCHANGED <<srvVars, reqVars, waitVars, histVars, extractVars, selectVars, stageVars, invoked, devVars,
                   ticker, tickerC, inflight, polls, lastResp>>

\* select, case <-timeout.
pollTimeout ==
    /\ Selecting
    /\ timeout = "fired"
    /\ Return("pollForAccessToken", "failed to obtain access token: authentication timed out")
    /\ UNCHANGED <<cfg, netSent, deferred, samlChan, errChan, gotSAML>>
    /\ UNCHANGED <<reqVars, waitVars, histVars, oidcVars>>

\* select, case <-ticker.C, as far as httpClient.Do: the request carries the
\* device code; if it cannot be built the loop continues.
pollTick ==
    /\ Selecting
    /\ tickerC
    /\ polls < MaxPolls
    /\ tickerC' = FALSE
    /\ \E built \in BOOLEAN :
        IF built
        THEN /\ inflight' = inflight + 1
             /\ polls' = polls + 1
             /\ netSent' = TRUE
             /\ pc' = "Do"
             /\ UNCHANGED lastResp
        ELSE /\ lastResp' = [kind |-> "request error", token |-> "", error |-> ""]
             /\ UNCHANGED <<pc, inflight, polls, netSent>>
    /\ UNCHANGED <<cfg, result, subResult>>
    /\ UNCHANGED <<srvVars, reqVars, waitVars, histVars, extractVars, selectVars, stageVars, invoked, devVars, ticker, timeout>>

\* What one poll attempt can end in: Do fails (the 30-second client timeout
\* included), the body is not JSON, or a JSON body with or without an
\* access token and with or without an error code.
PollOutcomes ==
    {[kind |-> k, token |-> "", error |-> ""] : k \in {"connection error", "invalid JSON"}}
    \cup [kind : {"response"}, token : {"", "eyJ"},
          error : {"", "authorization_pending", "slow_down", "access_denied"}]

\* A variant of pollDecision that gives up on a failed attempt.
pollDecisionStrict(r) ==
    IF r.kind # "response" THEN "denied"
    ELSE IF r.token # "" THEN "token"
    ELSE IF r.error \notin {"", "authorization_pending", "slow_down"} THEN "denied"
    ELSE "continue"

\* A variant of pollDecision for which slow_down is fatal.
pollDecisionSlowDownFatal(r) ==
    IF r.kind # "response" THEN "continue"
    ELSE IF r.token # "" THEN "token"
    ELSE IF r.error \notin {"", "authorization_pending"} THEN "denied"
    ELSE "continue"

\* What the loop does with the outcome of an attempt: a failed attempt is
\* skipped, a token is looked for first, then an error other than
\* authorization_pending and slow_down.
pollDecision(r) ==
    IF r.kind # "response" THEN "continue"
    ELSE IF r.token # "" THEN "token"
    ELSE IF r.error \notin {"", "authorization_pending", "slow_down"} THEN "denied"
    ELSE "continue"

\* httpClient.Do returns and the iteration runs to its end.
pollResponse ==
    /\ pc = "Do"
    /\ inflight' = inflight - 1
    /\ \E r \in PollOutcomes :
        /\ lastResp' = r
        /\ CASE pollDecision(r) = "token" -> Goto("oidcRemainder")
             [] pollDecision(r) = "denied" ->
                    Return("pollForAccessToken",
                           "failed to obtain access token: authentication failed")
             [] OTHER -> Goto("select")
    /\ UNCHANGED <<cfg, netSent, deferred, samlChan, errChan, gotSAML>>
    /\ UNCHANGED <<reqVars, waitVars, histVars, extractVars, selectVars, stageVars, invoked, devVars,
                   ticker, tickerC, timeout, polls>>

\* AuthenticateWithOIDC once it holds the access token: it caches the token
\* if asked to, looks up the federation app when none is configured and
\* fetches the assertion; a failure of the lookup or of the fetch ends the
\* flow.
oidcRemainder ==
    /\ pc = "oidcRemainder"
    /\ \E res \in {"ok", "failed to get SAML assertion"}
                  \cup (IF cfg.AWSAcctFedAppID = ""
                        THEN {"failed to discover AWS Federation app"} ELSE {}) :
        IF res = "ok" THEN Goto("oidcExtractRoles")
        ELSE Return("AuthenticateWithOIDC", res)
    /\ UNCHANGED <<cfg, netSent, deferred, samlChan, errChan, gotSAML>>
    /\ UNCHANGED <<reqVars, waitVars, histVars, oidcVars>>

\* ------------------------------------------------------ browser-SAML flow

\* AuthenticateWithBrowser, its two configuration checks.
BrowserValidate ==
    /\ pc = "AuthenticateWithBrowser"
    /\ IF BrowserConfigError(cfg) # "none"
       THEN Return("validate", BrowserConfigError(cfg))
       ELSE /\ pc' = "DetectDefaultBrowser"
            /\ UNCHANGED <<result, subResult, shutdownCalled, listener, serve_pc>>
    /\ UNCHANGED <<cfg, netSent, deferred, samlChan, errChan, gotSAML>>
    /\ UNCHANGED <<reqVars, waitVars, histVars, oidcVars>>

\* DetectDefaultBrowser: every BrowserUnknown comes with an error.
BrowserDetect ==
    /\ pc = "DetectDefaultBrowser"
    /\ \E browserType \in {"chrome", "firefox", "unknown"} :
        IF browserType = "unknown"
        THEN Return("detect", "browser detection failed")
        ELSE /\ pc' = "Start"
             /\ UNCHANGED <<result, subResult, shutdownCalled, listener, serve_pc>>
    /\ UNCHANGED <<cfg, netSent, deferred, samlChan, errChan, gotSAML>>
    /\ UNCHANGED <<reqVars, waitVars, histVars, oidcVars>>

\* A variant of BrowserStart that goes on although net.Listen failed.
BrowserStartIgnoringError ==
    /\ pc = "Start"
    /\ \E bound \in BOOLEAN :
        /\ pc' = "InstallExtension"
        /\ deferred' = TRUE
        /\ IF bound
           THEN listener' = "bound" /\ serve_pc' = "spawned"
           ELSE UNCHANGED <<listener, serve_pc>>
        /\ UNCHANGED <<result, subResult, shutdownCalled>>
    /\ UNCHANGED <<cfg, netSent, samlChan, errChan, gotSAML>>
    /\ UNCHANGED <<reqVars, waitVars, histVars, oidcVars>>

\* NewCallbackServer, server.Start() and defer server.Shutdown(): net.Listen
\* binds the port or fails; on success the serve goroutine is spawned and
\* Start returns without waiting for it to run.
BrowserStart ==
    /\ pc = "Start"
    /\ \E bound \in BOOLEAN :
        IF bound
        THEN /\ listener' = "bound"
             /\ serve_pc' = "spawned"
             /\ deferred' = TRUE
             /\ pc' = "InstallExtension"
             /\ UNCHANGED <<result, subResult, shutdownCalled>>
        ELSE /\ Return("start", "failed to start callback server")
             /\ UNCHANGED deferred
    /\ UNCHANGED <<cfg, netSent, samlChan, errChan, gotSAML>>
    /\ UNCHANGED <<reqVars, waitVars, histVars, oidcVars>>

\* IsExtensionInstalledInBrowser and, if not, InstallExtension.
BrowserExtension ==
    /\ pc = "InstallExtension"
    /\ \E extInstalled \in BOOLEAN, installed \in BOOLEAN :
        IF ~extInstalled /\ ~installed
        THEN Return("install", "failed to install extension")
        ELSE /\ pc' = "openBrowser"
             /\ UNCHANGED <<result, subResult, shutdownCalled, listener, serve_pc>>
    /\ UNCHANGED <<cfg, netSent, deferred, samlChan, errChan, gotSAML>>
    /\ UNCHANGED <<reqVars, waitVars, histVars, oidcVars>>

\* What the callback server is doing right now.
ServerState == IF listener = "unbound" THEN "unbound" ELSE serve_pc

\* openBrowser(oktaURL): a failure only prints a warning.
BrowserOpen ==
    /\ pc = "openBrowser"
    /\ openedWhile' = ServerState
    /\ pc' = "WaitForSAML"
    /\ UNCHANGED <<cfg, result, subResult, netSent>>
    /\ UNCHANGED <<srvVars, reqVars, waitVars, oidcVars>>

\* ------------------------------------------------- the wait and its events

\* The first event of the wait, once one has happened.
FirstAfter(e) == IF first = "none" THEN e ELSE first

\* WaitForSAML has taken an assertion out of samlChan.
Consumed == w_pc = "returned" /\ w_result.kind = "saml"

\* A variant of ReadyCases whose timer is ready at once (a zero timeout).
ReadyCasesTimerFired ==
    (IF Len(samlChan) > 0 THEN {"saml"} ELSE {})
        \cup (IF Len(errChan) > 0 THEN {"err"} ELSE {})
        \cup {"timeout"}

\* The select cases that can proceed when WaitForSAML reaches its select:
\* the timer was created a moment ago and has not fired.
ReadyCases ==
    (IF Len(samlChan) > 0 THEN {"saml"} ELSE {})
        \cup (IF Len(errChan) > 0 THEN {"err"} ELSE {})

\* WaitForSAML up to its select: with some case ready the select takes one
\* of the ready cases, any of them; with none it blocks.
WaitForSAML ==
    /\ pc = "WaitForSAML"
    /\ w_pc = "idle"
    /\ eventsAtEntry' = ReadyCases \ {"timeout"}
    /\ pc' = "afterWait"
    /\ IF ReadyCases = {}
       THEN /\ w_pc' = "blocked"
            /\ UNCHANGED <<w_result, samlChan, errChan, first>>
       ELSE \E k \in ReadyCases :
            /\ w_pc' = "returned"
            /\ CASE k = "saml" ->
                     /\ w_result' = [kind |-> "saml", val |-> Head(samlChan)]
                     /\ samlChan' = Tail(samlChan)
                     /\ UNCHANGED <<errChan, first>>
                 [] k = "err" ->
                     /\ w_result' = [kind |-> "err", val |-> Head(errChan)]
                     /\ errChan' = Tail(errChan)
                     /\ UNCHANGED <<samlChan, first>>
                 [] OTHER ->
                     /\ w_result' = [kind |-> "timeout", val |-> "timeout"]
                     /\ first' = FirstAfter("timeout")
                     /\ UNCHANGED <<samlChan, errChan>>
    /\ UNCHANGED <<cfg, result, subResult, netSent, listener, serve_pc, deferred, shutdownCalled, gotSAML>>
    /\ UNCHANGED <<reqVars, histVars, oidcVars>>

\* A variant of TimerFire: the timer fires and nobody is woken.
TimerFireLost ==
    /\ w_pc = "blocked"
    /\ first' = FirstAfter("timeout")
    /\ UNCHANGED <<w_pc, w_result>>
    /\ UNCHANGED <<cfg, pc, result, subResult, netSent, eventsAtEntry>>
    /\ UNCHANGED <<srvVars, reqVars, histVars, oidcVars>>

\* The timer of WaitForSAML fires while the select is blocked: case <-timer.C.
TimerFire ==
    /\ w_pc = "blocked"
    /\ w_pc' = "returned"
    /\ w_result' = [kind |-> "timeout", val |-> "timeout"]
    /\ first' = FirstAfter("timeout")
    /\ UNCHANGED <<cfg, pc, result, subResult, netSent, eventsAtEntry>>
    /\ UNCHANGED <<srvVars, reqVars, histVars, oidcVars>>

\* ------------------------------------------------------ the serve goroutine

\* The goroutine of Start gets to run server.Serve(listener).
ServeBegin ==
    /\ pc # "done"
    /\ serve_pc = "spawned"
    /\ serve_pc' = "accepting"
    /\ UNCHANGED <<cfg, pc, result, subResult, netSent, listener, deferred, shutdownCalled,
                   samlChan, errChan, gotSAML>>
    /\ UNCHANGED <<reqVars, waitVars, histVars, oidcVars>>

\* Serve returns an error other than ErrServerClosed: s.errChan <- err. A
\* select blocked in WaitForSAML receives it directly, else it is buffered.
ServeFail ==
    /\ pc # "done"
    /\ serve_pc = "accepting"
    /\ serve_pc' = "failed"
    /\ listener' = "closed"
    /\ first' = FirstAfter("err")
    /\ IF w_pc = "blocked"
       THEN /\ w_pc' = "returned"
            /\ w_result' = [kind |-> "err", val |-> "serve error"]
            /\ UNCHANGED errChan
       ELSE /\ errChan' = Append(errChan, "serve error")
            /\ UNCHANGED <<w_pc, w_result>>
    /\ UNCHANGED <<cfg, pc, result, subResult, netSent, deferred, shutdownCalled, samlChan, gotSAML,
                   eventsAtEntry>>
    /\ UNCHANGED <<reqVars, histVars, oidcVars>>

\* ------------------------------------------------------- the HTTP handlers

Payloads == {"a", "b"}

\* The requests a browser-side agent can send: to /callback with a method,
\* a form that parses or not and a SAMLResponse value ("" when the field is
\* missing or the form does not parse), or to /status.
Requests ==
    {[kind |-> "status", method |-> "GET", formOK |-> TRUE, saml |-> ""]}
        \cup {[kind |-> "callback", method |-> "POST", formOK |-> TRUE, saml |-> v] :
                 v \in Payloads \cup {""}}
        \cup {[kind |-> "callback", method |-> "GET", formOK |-> TRUE, saml |-> "a"]}
        \cup {[kind |-> "callback", method |-> m, formOK |-> FALSE, saml |-> ""] :
                 m \in {"POST", "GET"}}

\* A request as the server holds it: the handler's position, its response,
\* and two history fields: `early` (the submission reached the select before
\* WaitForSAML had returned) and `seen` (a submission had been
\* accepted when the probe read the flag).
Received(r) ==
    [kind |-> r.kind, method |-> r.method, formOK |-> r.formOK, saml |-> r.saml,
     pc |-> "recv", resp |-> "none", early |-> FALSE, seen |-> FALSE]

\* The submissions whose send on samlChan succeeded.
Accepted ==
    {i \in DOMAIN reqs : reqs[i].kind = "callback"
                            /\ (reqs[i].pc = "sent" \/ reqs[i].resp = "success")}

\* The server accepts a connection and starts the request's handler goroutine.
RequestArrive ==
    /\ pc # "done"
    /\ serve_pc = "accepting"
    /\ Len(reqs) < MaxRequests
    /\ \E r \in Requests : reqs' = Append(reqs, Received(r))
    /\ UNCHANGED <<cfgVars, flowVars, srvVars, waitVars, histVars, oidcVars>>

\* A variant of SamlChanCap: a channel with room for a second assertion.
SamlChanCapTwo == 1 + 1

\* make(chan string, 1)
SamlChanCap == 1

\* A variant of CallbackOutcome without the check for an empty SAMLResponse.
CallbackOutcomeNoEmptyCheck(r) ==
    IF r.method # "POST" THEN "405"
    ELSE IF ~r.formOK THEN "400"
    ELSE "select"

\* A variant of CallbackOutcome that reads the form before the method.
CallbackOutcomeFormFirst(r) ==
    IF ~r.formOK THEN "400"
    ELSE IF r.saml = "" THEN "400"
    ELSE IF r.method # "POST" THEN "405"
    ELSE "select"

\* handleCallback before its select: the status it answers at once, or "select".
CallbackOutcome(r) ==
    IF r.method # "POST" THEN "405"
    ELSE IF ~r.formOK THEN "400"
    ELSE IF r.saml = "" THEN "400"
    ELSE "select"

\* handleCallback up to and including its select: 405, 400, or the select's
\* send on samlChan (taken by a blocked WaitForSAML directly, else buffered
\* if the one slot is free), or its default case, 503.
handleCallback(i) ==
    /\ pc # "done"
    /\ reqs[i].kind = "callback"
    /\ reqs[i].pc = "recv"
    /\ IF CallbackOutcome(reqs[i]) # "select"
       THEN /\ reqs' = [reqs EXCEPT ![i].pc = "done", ![i].resp = CallbackOutcome(reqs[i])]
            /\ UNCHANGED <<samlChan, w_pc, w_result, first>>
       ELSE IF w_pc = "blocked"
       THEN /\ w_pc' = "returned"
            /\ w_result' = [kind |-> "saml", val |-> reqs[i].saml]
            /\ first' = FirstAfter("saml")
            /\ reqs' = [reqs EXCEPT ![i].pc = "sent", ![i].early = (w_pc # "returned")]
            /\ UNCHANGED samlChan
       ELSE IF Len(samlChan) < SamlChanCap
       THEN /\ samlChan' = Append(samlChan, reqs[i].saml)
            /\ first' = FirstAfter("saml")
            /\ reqs' = [reqs EXCEPT ![i].pc = "sent", ![i].early = (w_pc # "returned")]
            /\ UNCHANGED <<w_pc, w_result>>
       ELSE /\ reqs' = [reqs EXCEPT ![i].pc = "done", ![i].resp = "503",
                                    ![i].early = (w_pc # "returned")]
            /\ UNCHANGED <<samlChan, w_pc, w_result, first>>
    /\ UNCHANGED <<cfg, result, subResult, netSent, listener, serve_pc, deferred, shutdownCalled,
                   errChan, gotSAML, eventsAtEntry, openedWhile>>
    /\ UNCHANGED <<pc, oidcVars>>

\* handleCallback after the send: s.gotSAML = true, then the success page.
handleCallbackSent(i) ==
    /\ pc # "done"
    /\ reqs[i].kind = "callback"
    /\ reqs[i].pc = "sent"
    /\ gotSAML' = TRUE
    /\ reqs' = [reqs EXCEPT ![i].pc = "done", ![i].resp = "success"]
    /\ UNCHANGED <<cfg, pc, result, subResult, netSent, listener, serve_pc, deferred, shutdownCalled,
                   samlChan, errChan>>
    /\ UNCHANGED <<waitVars, histVars, oidcVars>>

\* A variant of handleStatus that reports the flag to one probe only.
handleStatusFirstOnly(i) ==
    /\ pc # "done"
    /\ reqs[i].kind = "status"
    /\ reqs[i].pc = "recv"
    /\ reqs' = [reqs EXCEPT ![i].pc = "done",
                            ![i].resp = IF gotSAML /\ \A k \in DOMAIN reqs : reqs[k].resp # "200"
                                        THEN "200" ELSE "404",
                            ![i].seen = (Accepted # {})]
    /\ UNCHANGED <<cfgVars, flowVars, srvVars, waitVars, histVars, oidcVars>>

\* A variant of handleStatus that clears the flag it reports.
handleStatusClearing(i) ==
    /\ pc # "done"
    /\ reqs[i].kind = "status"
    /\ reqs[i].pc = "recv"
    /\ reqs' = [reqs EXCEPT ![i].pc = "done",
                            ![i].resp = IF gotSAML THEN "200" ELSE "404",
                            ![i].seen = (Accepted # {})]
    /\ gotSAML' = FALSE
    /\ UNCHANGED <<cfgVars, flowVars, listener, serve_pc, deferred, shutdownCalled,
                   samlChan, errChan, waitVars, histVars, oidcVars>>

\* handleStatus: 200 if s.gotSAML, else 404.
handleStatus(i) ==
    /\ pc # "done"
    /\ reqs[i].kind = "status"
    /\ reqs[i].pc = "recv"
    /\ reqs' = [reqs EXCEPT ![i].pc = "done",
                            ![i].resp = IF gotSAML THEN "200" ELSE "404",
                            ![i].seen = (Accepted # {})]
    /\ UNCHANGED <<cfgVars, flowVars, srvVars, waitVars, histVars, oidcVars>>

\* ------------------------------------- the browser-SAML flow after the wait

\* WaitForSAML has returned: an error ends the flow, an assertion goes on.
BrowserAfterWait ==
    /\ pc = "afterWait"
    /\ w_pc = "returned"
    /\ IF w_result.kind # "saml"
       THEN Return("wait", "failed to receive SAML assertion")
       ELSE /\ pc' = "extractRolesFromSAML"
            /\ UNCHANGED <<result, subResult, shutdownCalled, listener, serve_pc>>
    /\ UNCHANGED <<cfg, netSent, deferred, samlChan, errChan, gotSAML>>
    /\ UNCHANGED <<reqVars, waitVars, histVars, oidcVars>>

\* One stage of a flow, a call of `fn`: it fails and the flow returns its
\* error, or the flow goes on to the next stage.
Stage(stage, fn, failure, next) ==
    /\ pc = stage
    /\ calls' = Append(calls, fn)
    /\ \E ok \in BOOLEAN :
        IF ok
        THEN /\ pc' = next
             /\ UNCHANGED <<result, subResult, shutdownCalled, listener, serve_pc>>
        ELSE Return(stage, failure)
    /\ UNCHANGED <<cfg, deferred, samlChan, errChan, gotSAML>>
    /\ UNCHANGED <<reqVars, waitVars, histVars>>
    /\ UNCHANGED <<invoked, devVars, pollVars, extractVars, selectVars, exchange, output>>

\* A variant of AssumeRoleWithSAMLInput that takes the principal of the
\* first grant.
AssumeRoleWithFirstPrincipal ==
    [RoleArn |-> selected.RoleARN,
     PrincipalArn |-> IF roles = <<>> THEN selected.PrincipalARN
                      ELSE roles[1].PrincipalARN,
     SAMLAssertion |-> assertion, DurationSeconds |-> cfg.SessionDuration]

\* What the exchange is called with.
AssumeRoleWithSAMLInput ==
    [RoleArn |-> selected.RoleARN, PrincipalArn |-> selected.PrincipalARN,
     SAMLAssertion |-> assertion, DurationSeconds |-> cfg.SessionDuration]

\* A variant of AssumeRole that calls the exchange again when it fails.
AssumeRoleRetrying(stage, next) ==
    /\ pc = stage
    /\ calls' = Append(calls, "assumeRoleWithSAML")
    /\ netSent' = TRUE
    /\ \E outcome \in {"error", "credentials"} :
        /\ exchange' = Append(exchange, [input |-> AssumeRoleWithSAMLInput,
                                         outcome |-> outcome])
        /\ pc' = IF outcome = "error" /\ exchange = <<>> THEN stage
                 ELSE IF outcome = "error" THEN "done" ELSE next
        /\ result' = IF outcome = "error" /\ exchange # <<>>
                     THEN "failed to assume role" ELSE result
        /\ subResult' = result'
    /\ UNCHANGED <<cfg, deferred, samlChan, errChan, gotSAML, shutdownCalled, listener, serve_pc>>
    /\ UNCHANGED <<reqVars, waitVars, histVars>>
    /\ UNCHANGED <<invoked, devVars, pollVars, extractVars, selectVars, output>>

\* assumeRoleWithSAML: session.Must panics when no session can be made (the
\* deferred calls run, nothing is returned); otherwise the STS endpoint is
\* called once, and its error ends the flow.
AssumeRole(stage, next) ==
    /\ pc = stage
    /\ calls' = Append(calls, "assumeRoleWithSAML")
    /\ \E outcome \in {"panic", "error", "credentials"} :
        IF outcome = "panic"
        THEN /\ pc' = "panicked"
             /\ IF deferred
                THEN /\ shutdownCalled' = TRUE
                     /\ listener' = "closed"
                     /\ serve_pc' = IF serve_pc \in {"spawned", "accepting"}
                                    THEN "closed" ELSE serve_pc
                ELSE UNCHANGED <<shutdownCalled, listener, serve_pc>>
             /\ UNCHANGED <<result, subResult, netSent, exchange>>
        ELSE /\ exchange' = Append(exchange, [input |-> AssumeRoleWithSAMLInput,
                                              outcome |-> outcome])
             /\ netSent' = TRUE
             /\ IF outcome = "error"
                THEN Return(stage, "failed to assume role")
                ELSE /\ pc' = next
                     /\ UNCHANGED <<result, subResult, shutdownCalled, listener, serve_pc>>
    /\ UNCHANGED <<cfg, deferred, samlChan, errChan, gotSAML>>
    /\ UNCHANGED <<reqVars, waitVars, histVars>>
    /\ UNCHANGED <<invoked, devVars, pollVars, extractVars, selectVars, output>>

\* writeCredentialsFile: the section of ~/.aws/credentials it sets.
writeCredentialsFile(c) ==
    [to |-> "credentials file", as |-> "section",
     profile |-> IF c.Profile = "" THEN "default" ELSE c.Profile]

\* outputJSON
outputJSON == [to |-> "stdout", as |-> "json", profile |-> ""]

\* outputEnv
outputEnv == [to |-> "stdout", as |-> "export lines", profile |-> ""]

\* outputCredentials: where the credentials go and in which form.  The file
\* is written when it was asked for or a profile is set; otherwise the
\* format decides, and every format but "env" gives the JSON object.
outputCredentials(c) ==
    IF c.WriteAWSCredentials \/ c.Profile # "" THEN writeCredentialsFile(c)
    ELSE CASE c.Format = "json" -> outputJSON
           [] c.Format = "env" -> outputEnv
           [] OTHER -> outputJSON

\* What outputCredentials returns: writing the file and encoding the object
\* can fail, printing the export lines returns nil.
OutputResults(c) ==
    CASE outputCredentials(c).to = "credentials file" ->
             {"ok", "failed to write credentials"}
      [] outputCredentials(c).as = "json" -> {"ok", "encode error"}
      [] OTHER -> {"ok"}

\* outputCredentials ends the flow with its own result.
Output(stage) ==
    /\ pc = stage
    /\ calls' = Append(calls, "outputCredentials")
    /\ \E res \in OutputResults(cfg) :
        /\ output' = IF res = "ok" THEN Append(output, outputCredentials(cfg))
                      ELSE output
        /\ Return(stage, res)
    /\ UNCHANGED <<cfg, netSent, deferred, samlChan, errChan, gotSAML>>
    /\ UNCHANGED <<reqVars, waitVars, histVars>>
    /\ UNCHANGED <<invoked, devVars, pollVars, extractVars, selectVars, exchange>>

BrowserExtractRoles ==
    /\ Stage("extractRolesFromSAML", "extractRolesFromSAML",
             "failed to extract roles from SAML", "selectRole")
    /\ UNCHANGED netSent

BrowserSelectRole ==
    /\ Stage("selectRole", "selectRole", "failed to select role", "assumeRoleWithSAML")
    /\ UNCHANGED netSent

BrowserAssumeRole == AssumeRole("assumeRoleWithSAML", "outputCredentials")

BrowserOutput == Output("outputCredentials")

\* ---------------------------------- the OIDC flow after the assertion

oidcExtractRoles ==
    /\ Stage("oidcExtractRoles", "extractRolesFromSAML",
             "failed to extract roles from SAML", "oidcSelectRole")
    /\ UNCHANGED netSent

oidcSelectRole ==
    /\ Stage("oidcSelectRole", "selectRole", "failed to select role", "oidcAssumeRole")
    /\ UNCHANGED netSent

oidcAssumeRole == AssumeRole("oidcAssumeRole", "oidcOutput")

oidcOutput == Output("oidcOutput")

\* ------------------------------------------------- the selection of a role

\* The call of extractRolesFromSAML in a flow, on the assertion the flow
\* obtained: its error ends the flow, its grants go to selectRole.
ExtractRolesIn(stage, next) ==
    /\ pc = stage
    /\ calls' = Append(calls, "extractRolesFromSAML")
    /\ extracted' = extractRolesFromSAML(assertion)
    /\ roles' = extractRolesFromSAML(assertion).roles
    /\ IF extractRolesFromSAML(assertion).err # "nil"
       THEN Return(stage, "failed to extract roles from SAML")
       ELSE /\ pc' = next
            /\ UNCHANGED <<result, subResult, shutdownCalled, listener, serve_pc>>
    /\ UNCHANGED <<cfg, netSent, deferred, samlChan, errChan, gotSAML>>
    /\ UNCHANGED <<reqVars, waitVars, histVars>>
    /\ UNCHANGED <<invoked, devVars, pollVars, assertion, stdin, selected, scanned,
                   exchange, output>>

\* The call of selectRole in a flow, on the grants and the line typed: its
\* error ends the flow, its grant goes to the exchange.
SelectRoleIn(stage, next) ==
    /\ pc = stage
    /\ calls' = Append(calls, "selectRole")
    /\ selected' = [RoleARN |-> selectRole(cfg, roles, stdin).RoleARN,
                    PrincipalARN |-> selectRole(cfg, roles, stdin).PrincipalARN,
                    err |-> selectRole(cfg, roles, stdin).err]
    /\ scanned' = selectRole(cfg, roles, stdin).asked
    /\ written' = IF selectRole(cfg, roles, stdin).asked
                  THEN written \cup {"Available AWS roles"} ELSE written
    /\ IF selectRole(cfg, roles, stdin).err # "nil"
       THEN Return(stage, "failed to select role")
       ELSE /\ pc' = next
            /\ UNCHANGED <<result, subResult, shutdownCalled, listener, serve_pc>>
    /\ UNCHANGED <<cfg, netSent, deferred, samlChan, errChan, gotSAML>>
    /\ UNCHANGED <<reqVars, waitVars, histVars>>
    /\ UNCHANGED <<invoked, flags, deviceAuth, deviceRequests, displayed, pollVars,
                   extractVars, roles, stdin, exchange, output>>

SelectRole == SelectRoleIn("selectRole", "assumeRoleWithSAML")

\* The two calls in the browser-SAML flow and in the OIDC flow.
BrowserExtract == ExtractRolesIn("extractRolesFromSAML", "selectRole")

oidcExtract == ExtractRolesIn("oidcExtractRoles", "oidcSelectRole")

oidcSelect == SelectRoleIn("oidcSelectRole", "oidcAssumeRole")

\* ---------------------------------------------------------- specification

Next ==
    \/ NewConfig
    \/ runWebAuth
    \/ Authenticate
    \/ startDeviceAuthorization
    \/ displayAuthorizationURL
    \/ pollForAccessToken
    \/ tickerTick
    \/ timeoutFire
    \/ pollTimeout
    \/ pollTick
    \/ pollResponse
    \/ oidcRemainder
    \/ oidcExtractRoles
    \/ oidcSelectRole
    \/ oidcAssumeRole
    \/ oidcOutput
    \/ BrowserValidate
    \/ BrowserDetect
    \/ BrowserStart
    \/ BrowserExtension
    \/ BrowserOpen
    \/ WaitForSAML
    \/ TimerFire
    \/ BrowserAfterWait
    \/ BrowserExtractRoles
    \/ BrowserSelectRole
    \/ BrowserAssumeRole
    \/ BrowserOutput
    \/ ServeBegin
    \/ ServeFail
    \/ RequestArrive
    \/ \E i \in DOMAIN reqs : handleCallback(i)
    \/ \E i \in DOMAIN reqs : handleCallbackSent(i)
    \/ \E i \in DOMAIN reqs : handleStatus(i)

Spec == Init /\ [][Next]_vars

\* The timer of WaitForSAML is a runtime timer: once started it fires.
FairSpec == Spec /\ WF_vars(TimerFire)

\* The configurations with which a run enters AuthenticateWithOIDC.
OIDCConfigs ==
    {c \in {NewConfigOf(raw) : raw \in RawConfigs} :
        /\ runWebAuthError(c) = "none"
        /\ AuthenticateFlow(c) = "oidc"}

\* The state in which Authenticate has just invoked AuthenticateWithOIDC.
OIDCInit ==
    /\ cfg \in OIDCConfigs
    /\ pc = "startDeviceAuthorization"
    /\ invoked = <<"AuthenticateWithOIDC">>
    /\ result = "none"
    /\ subResult = "none"
    /\ netSent = FALSE
    /\ listener = "unbound"
    /\ serve_pc = "none"
    /\ deferred = FALSE
    /\ shutdownCalled = FALSE
    /\ samlChan = <<>>
    /\ errChan = <<>>
    /\ gotSAML = FALSE
    /\ reqs = <<>>
    /\ w_pc = "idle"
    /\ w_result = NoResult
    /\ first = "none"
    /\ eventsAtEntry = {}
    /\ openedWhile = "never"
    /\ flags = NoSwitches
    /\ deviceAuth = NoDeviceAuth
    /\ deviceRequests = 0
    /\ written = {}
    /\ displayed = FALSE
    /\ ticker = <<>>
    /\ tickerC = FALSE
    /\ timeout = "unset"
    /\ inflight = 0
    /\ polls = 0
    /\ lastResp = NoResponse
    /\ assertion = NoAssertion
    /\ extracted = NotExtracted
    /\ roles = <<>>
    /\ stdin = <<>>
    /\ selected = NotSelected
    /\ scanned = FALSE
    /\ exchange = <<>>
    /\ calls = <<>>
    /\ output = <<>>

\* The steps of AuthenticateWithOIDC and of the timers it starts.
OIDCNext ==
    \/ startDeviceAuthorization
    \/ displayAuthorizationURL
    \/ pollForAccessToken
    \/ tickerTick
    \/ timeoutFire
    \/ pollTimeout
    \/ pollTick
    \/ pollResponse
    \/ oidcRemainder
    \/ oidcExtractRoles
    \/ oidcSelectRole
    \/ oidcAssumeRole
    \/ oidcOutput

\* One run of AuthenticateWithOIDC.
OIDCSpec == OIDCInit /\ [][OIDCNext]_vars

\* A call of extractRolesFromSAML, on any of the assertions.  The function
\* reads nothing but its argument: the rest of the state is as a run
\* starts with.
ExtractInit ==
    /\ assertion \in Assertions
    /\ extracted = NotExtracted
    /\ pc = "extractRolesFromSAML"
    /\ cfg = [AuthFlow |-> "oidc", OrgDomain |-> "example.okta.com",
              OIDCClientID |-> "0oaCLIENT", AWSAcctFedAppID |-> "0oaAPP",
              AWSIAMRole |-> <<>>, SessionDuration |-> 3600,
              ViperSessionDuration |-> <<>>, Profile |-> "default",
              Format |-> "env-var", WriteAWSCredentials |-> FALSE]
    /\ roles = <<>>
    /\ stdin = <<>>
    /\ selected = NotSelected
    /\ scanned = FALSE
    /\ exchange = <<>>
    /\ calls = <<>>
    /\ output = <<>>
    /\ invoked = <<>>
    /\ result = "none"
    /\ subResult = "none"
    /\ netSent = FALSE
    /\ listener = "unbound"
    /\ serve_pc = "none"
    /\ deferred = FALSE
    /\ shutdownCalled = FALSE
    /\ samlChan = <<>>
    /\ errChan = <<>>
    /\ gotSAML = FALSE
    /\ reqs = <<>>
    /\ w_pc = "idle"
    /\ w_result = NoResult
    /\ first = "none"
    /\ eventsAtEntry = {}
    /\ openedWhile = "never"
    /\ flags = NoSwitches
    /\ deviceAuth = NoDeviceAuth
    /\ deviceRequests = 0
    /\ written = {}
    /\ displayed = FALSE
    /\ ticker = <<>>
    /\ tickerC = FALSE
    /\ timeout = "unset"
    /\ inflight = 0
    /\ polls = 0
    /\ lastResp = NoResponse

ExtractNext == ExtractRoles

ExtractSpec == ExtractInit /\ [][ExtractNext]_vars

\* The configurations of a flow that has reached selectRole, with any of the
\* role preferences.
SelectConfigs ==
    {[AuthFlow |-> "saml-browser", OrgDomain |-> "example.okta.com",
      OIDCClientID |-> "", AWSAcctFedAppID |-> "0oaAPP",
      AWSIAMRole |-> p, SessionDuration |-> 3600, ViperSessionDuration |-> <<>>,
      Profile |-> "default", Format |-> "env-var", WriteAWSCredentials |-> FALSE] :
        p \in Preferences}

\* A flow about to call selectRole, on any of the lists of grants, with any
\* of the lines typed at the prompt.  selectRole and the stages after it
\* read nothing else: the rest of the state is as a run starts with.
SelectInit ==
    /\ cfg \in SelectConfigs
    /\ roles \in RoleLists
    /\ stdin \in Lines
    /\ pc = "selectRole"
    /\ selected = NotSelected
    /\ scanned = FALSE
    /\ exchange = <<>>
    /\ calls = <<>>
    /\ output = <<>>
    /\ invoked = <<>>
    /\ result = "none"
    /\ subResult = "none"
    /\ netSent = FALSE
    /\ listener = "unbound"
    /\ serve_pc = "none"
    /\ deferred = FALSE
    /\ shutdownCalled = FALSE
    /\ samlChan = <<>>
    /\ errChan = <<>>
    /\ gotSAML = FALSE
    /\ reqs = <<>>
    /\ w_pc = "idle"
    /\ w_result = NoResult
    /\ first = "none"
    /\ eventsAtEntry = {}
    /\ openedWhile = "never"
    /\ flags = NoSwitches
    /\ deviceAuth = NoDeviceAuth
    /\ deviceRequests = 0
    /\ written = {}
    /\ displayed = FALSE
    /\ ticker = <<>>
    /\ tickerC = FALSE
    /\ timeout = "unset"
    /\ inflight = 0
    /\ polls = 0
    /\ lastResp = NoResponse
    /\ assertion = NoAssertion
    /\ extracted = NotExtracted

\* selectRole, the exchange and the output.
SelectNext ==
    \/ SelectRole
    \/ BrowserAssumeRole
    \/ BrowserOutput

SelectSpec == SelectInit /\ [][SelectNext]_vars

\* What the config file, the flags and the environment give NewConfig for a
\* flow that reaches the exchange: the session duration of the config file is
\* any of FileDurations, the value of aws-session-duration (flag or
\* environment) any line, the profile, the format and the request to write
\* the credentials file any of theirs.
ExchangeRawConfigs ==
    {[AuthFlow |-> "saml-browser", OrgDomain |-> "example.okta.com",
      OIDCClientID |-> "", AWSAcctFedAppID |-> "0oaAPP",
      AWSIAMRole |-> <<>>, SessionDuration |-> d,
      ViperSessionDuration |-> v, Profile |-> p, Format |-> f,
      WriteAWSCredentials |-> w] :
        d \in FileDurations, v \in Lines, p \in Profiles, f \in Formats,
        w \in BOOLEAN}

\* The configurations NewConfig can return to such a flow.
ExchangeConfigs == {NewConfigOf(raw) : raw \in ExchangeRawConfigs}

\* A flow about to call assumeRoleWithSAML with the grant selectRole
\* returned.  The exchange and the output read nothing else: the rest of the
\* state is as a run starts with.
ExchangeInit ==
    /\ cfg \in ExchangeConfigs
    /\ selected \in {[RoleARN |-> g.RoleARN, PrincipalARN |-> g.PrincipalARN,
                       err |-> "nil"] : g \in Grants}
    /\ pc = "assumeRoleWithSAML"
    /\ calls = <<"selectRole">>
    /\ output = <<>>
    /\ roles = <<>>
    /\ stdin = <<>>
    /\ scanned = FALSE
    /\ exchange = <<>>
    /\ invoked = <<>>
    /\ result = "none"
    /\ subResult = "none"
    /\ netSent = FALSE
    /\ listener = "unbound"
    /\ serve_pc = "none"
    /\ deferred = FALSE
    /\ shutdownCalled = FALSE
    /\ samlChan = <<>>
    /\ errChan = <<>>
    /\ gotSAML = FALSE
    /\ reqs = <<>>
    /\ w_pc = "idle"
    /\ w_result = NoResult
    /\ first = "none"
    /\ eventsAtEntry = {}
    /\ openedWhile = "never"
    /\ flags = NoSwitches
    /\ deviceAuth = NoDeviceAuth
    /\ deviceRequests = 0
    /\ written = {}
    /\ displayed = FALSE
    /\ ticker = <<>>
    /\ tickerC = FALSE
    /\ timeout = "unset"
    /\ inflight = 0
    /\ polls = 0
    /\ lastResp = NoResponse
    /\ assertion = NoAssertion
    /\ extracted = NotExtracted

\* The exchange and the output.
ExchangeNext ==
    \/ BrowserAssumeRole
    \/ BrowserOutput

ExchangeSpec == ExchangeInit /\ [][ExchangeNext]_vars

\* ----------------------------------------------- the flows from the assertion on

\* The assertions a flow can obtain and the lines typed at the prompt of
\* selectRole.
FlowAssertions == {a \in Assertions : Len(a.doc) < MaxElements}

FlowLines == {l \in Lines : Len(l) <= 1}

\* The configuration of a run that reached the stage.
FlowConfig(flow, client) ==
    [AuthFlow |-> flow, OrgDomain |-> "example.okta.com",
     OIDCClientID |-> client, AWSAcctFedAppID |-> "0oaAPP",
     AWSIAMRole |-> <<>>, SessionDuration |-> 3600, ViperSessionDuration |-> <<>>,
     Profile |-> "default", Format |-> "env-var", WriteAWSCredentials |-> FALSE]

\* AuthenticateWithBrowser when WaitForSAML has returned, with the assertion
\* of an accepted submission or with the timeout.
BrowserFlowInit ==
    /\ cfg = FlowConfig("saml-browser", "")
    /\ pc = "afterWait"
    /\ invoked = <<"AuthenticateWithBrowser">>
    /\ netSent = FALSE
    /\ listener = "bound"
    /\ deferred = TRUE
    /\ w_pc = "returned"
    /\ openedWhile = "spawned"
    /\ \/ /\ w_result = [kind |-> "saml", val |-> "a"]
          /\ first = "saml"
          /\ gotSAML = TRUE
          /\ serve_pc = "accepting"
          /\ reqs = <<[kind |-> "callback", method |-> "POST", formOK |-> TRUE,
                       saml |-> "a", pc |-> "done", resp |-> "success",
                       early |-> TRUE, seen |-> FALSE]>>
       \/ /\ w_result = [kind |-> "timeout", val |-> "timeout"]
          /\ first = "timeout"
          /\ gotSAML = FALSE
          /\ serve_pc = "spawned"
          /\ reqs = <<>>
    /\ flags = NoSwitches
    /\ deviceAuth = NoDeviceAuth
    /\ deviceRequests = 0
    /\ written = {}
    /\ displayed = FALSE
    /\ ticker = <<>>
    /\ timeout = "unset"
    /\ polls = 0
    /\ lastResp = NoResponse

\* AuthenticateWithOIDC when pollForAccessToken has returned the token of
\* its first poll.
OIDCFlowInit ==
    /\ cfg = FlowConfig("oidc", "0oaCLIENT")
    /\ pc = "oidcRemainder"
    /\ invoked = <<"AuthenticateWithOIDC">>
    /\ netSent = TRUE
    /\ listener = "unbound"
    /\ deferred = FALSE
    /\ w_pc = "idle"
    /\ openedWhile = "never"
    /\ w_result = NoResult
    /\ first = "none"
    /\ gotSAML = FALSE
    /\ serve_pc = "none"
    /\ reqs = <<>>
    /\ flags = [read |-> TRUE, Debug |-> FALSE, DebugAPICalls |-> FALSE,
                OpenBrowser |-> FALSE]
    /\ deviceAuth = [Interval |-> Int64(0), outcome |-> "ok"]
    /\ deviceRequests = 1
    /\ written = {"user_code", "verification_uri", "verification_uri_complete"}
    /\ displayed = TRUE
    /\ ticker = interval([Interval |-> Int64(0), outcome |-> "ok"])
    /\ timeout = "armed"
    /\ polls = 1
    /\ lastResp = [kind |-> "response", token |-> "eyJ", error |-> ""]

\* A flow about to obtain the assertion, with any assertion the provider can
\* hand out and any line typed at the prompt.
FlowInit ==
    /\ BrowserFlowInit \/ OIDCFlowInit
    /\ assertion \in FlowAssertions
    /\ stdin \in FlowLines
    /\ extracted = NotExtracted
    /\ roles = <<>>
    /\ selected = NotSelected
    /\ scanned = FALSE
    /\ exchange = <<>>
    /\ calls = <<>>
    /\ output = <<>>
    /\ result = "none"
    /\ subResult = "none"
    /\ shutdownCalled = FALSE
    /\ samlChan = <<>>
    /\ errChan = <<>>
    /\ eventsAtEntry = {}
    /\ tickerC = FALSE
    /\ inflight = 0

\* The stages of both flows from the assertion on.
FlowNext ==
    \/ BrowserAfterWait
    \/ BrowserExtract
    \/ SelectRole
    \/ BrowserAssumeRole
    \/ BrowserOutput
    \/ oidcRemainder
    \/ oidcExtract
    \/ oidcSelect
    \/ oidcAssumeRole
    \/ oidcOutput

FlowSpec == FlowInit /\ [][FlowNext]_vars

\* ------------------------------------------------------ the running server

\* What a browser-side agent sends to a running server: probes of /status
\* and valid submissions.
ServerRequests ==
    {r \in Requests : r.kind = "status" \/ CallbackOutcome(r) = "select"}

\* The server accepts a connection and starts the request's handler
\* goroutine; a server taken by itself is sent one request more than the
\* server of a whole run.
ServerArrive ==
    /\ pc # "done"
    /\ serve_pc = "accepting"
    /\ Len(reqs) < MaxRequests + 1
    /\ \E r \in ServerRequests : reqs' = Append(reqs, Received(r))
    /\ UNCHANGED <<cfgVars, flowVars, srvVars, waitVars, histVars, oidcVars>>

\* AuthenticateWithBrowser about to call WaitForSAML: the server is started
\* and serving, nothing was received yet.
ServerInit ==
    /\ cfg = FlowConfig("saml-browser", "")
    /\ pc = "WaitForSAML"
    /\ invoked = <<"AuthenticateWithBrowser">>
    /\ listener = "bound"
    /\ serve_pc = "accepting"
    /\ deferred = TRUE
    /\ shutdownCalled = FALSE
    /\ samlChan = <<>>
    /\ errChan = <<>>
    /\ gotSAML = FALSE
    /\ reqs = <<>>
    /\ w_pc = "idle"
    /\ w_result = NoResult
    /\ first = "none"
    /\ eventsAtEntry = {}
    /\ openedWhile = "accepting"
    /\ result = "none"
    /\ subResult = "none"
    /\ netSent = FALSE
    /\ flags = NoSwitches
    /\ deviceAuth = NoDeviceAuth
    /\ deviceRequests = 0
    /\ written = {}
    /\ displayed = FALSE
    /\ ticker = <<>>
    /\ tickerC = FALSE
    /\ timeout = "unset"
    /\ inflight = 0
    /\ polls = 0
    /\ lastResp = NoResponse
    /\ assertion = NoAssertion
    /\ extracted = NotExtracted
    /\ roles = <<>>
    /\ stdin = <<>>
    /\ selected = NotSelected
    /\ scanned = FALSE
    /\ exchange = <<>>
    /\ calls = <<>>
    /\ output = <<>>

\* The server's handlers, the wait and the flow as far as the end of the
\* wait.
ServerNext ==
    \/ ServerArrive
    \/ \E i \in DOMAIN reqs : handleCallback(i)
    \/ \E i \in DOMAIN reqs : handleCallbackSent(i)
    \/ \E i \in DOMAIN reqs : handleStatus(i)
    \/ WaitForSAML
    \/ TimerFire
    \/ BrowserAfterWait

ServerSpec == ServerInit /\ [][ServerNext]_vars

\* ------------------------------------------------- the callback listener

\* A valid submission: a POST whose form parses and carries a SAMLResponse.
IsSubmission(r) ==
    r.kind = "callback" /\ r.method = "POST" /\ r.formOK /\ r.saml # ""

\* A POST whose SAMLResponse is missing or empty.
IsEmptySubmission(r) ==
    r.kind = "callback" /\ r.method = "POST" /\ r.saml = ""

\* The valid submissions that reached the select before WaitForSAML returned.
Early == {i \in DOMAIN reqs : IsSubmission(reqs[i]) /\ reqs[i].pc # "recv" /\ reqs[i].early}

\* The handler of request i leaves its first step in this transition.
Handled(i) == reqs[i].pc = "recv" /\ reqs'[i].pc # "recv"

\* C1: at most one submission is ever accepted on one CallbackServer,
\* whatever the interleaving of submissions and the wait, also after the
\* waiter has taken the first assertion out of the channel.
C1_AtMostOneAccepted == Cardinality(Accepted) <= 1

\* C2 as stated: when two or more valid submissions reach the select before
\* WaitForSAML has returned, exactly one is accepted, the others get 503,
\* and WaitForSAML then returns the accepted payload.
C2_WaitReturnsAccepted ==
    (Cardinality(Early) >= 2 /\ w_pc = "returned") =>
        \E a \in Early :
            /\ Early \cap Accepted = {a}
            /\ \A i \in Early \ {a} : reqs[i].resp = "503"
            /\ w_result = [kind |-> "saml", val |-> reqs[a].saml]

\* C2, amended: when two or more valid submissions reach the select before
\* WaitForSAML has returned, exactly one is accepted and the others get 503;
\* the accepted payload stays in the channel untouched until WaitForSAML
\* takes it, and if WaitForSAML returns an assertion it is that payload.
C2_ExactlyOneEarlyAccepted ==
    Cardinality(Early) >= 2 =>
        \E a \in Early :
            /\ Early \cap Accepted = {a}
            /\ \A i \in Early \ {a} : reqs[i].resp = "503"
            /\ Consumed => w_result.val = reqs[a].saml
            /\ ~Consumed => samlChan = <<reqs[a].saml>>

\* C2 witness: two early submissions, and the wait has returned the assertion.
C2_Witness == Cardinality(Early) >= 2 /\ Consumed

\* C3: every GET /status answers 200 exactly if a submission had been
\* accepted when the probe ran, and 404 otherwise.
C3_StatusIffAccepted ==
    \A i \in DOMAIN reqs :
        (reqs[i].kind = "status" /\ reqs[i].pc = "done") =>
            ((reqs[i].resp = "200") <=> reqs[i].seen)

\* C4: a POST with a missing or empty SAMLResponse is answered 400 and
\* changes neither the channel, the flag nor the waiter; and a valid
\* submission handled while nothing has been accepted is accepted, also
\* after such a rejection.
C4_EmptyRejectedNoEffect ==
    [][\A i \in DOMAIN reqs :
          /\ (IsEmptySubmission(reqs[i]) /\ Handled(i)) =>
                /\ reqs'[i].pc = "done"
                /\ reqs'[i].resp = "400"
                /\ UNCHANGED <<samlChan, errChan, gotSAML, w_pc, w_result>>
          /\ (IsSubmission(reqs[i]) /\ Handled(i) /\ Accepted = {}
                /\ \E j \in DOMAIN reqs : IsEmptySubmission(reqs[j]) /\ reqs[j].pc = "done") =>
                i \in Accepted']_vars

\* C4 witness: an empty submission was rejected and a later one accepted.
C4_Witness ==
    \E i, j \in DOMAIN reqs :
        /\ i < j
        /\ IsEmptySubmission(reqs[i]) /\ reqs[i].formOK /\ reqs[i].resp = "400"
        /\ reqs[j].resp = "success"

\* C5: a request to /callback is answered 405 if it is no POST, else 400 if
\* the form does not parse or SAMLResponse is missing, else 503 if the slot
\* is occupied, else it is accepted and then answered with the success page;
\* only acceptance changes the listener's state.
C5_CallbackResponses ==
    [][\A i \in DOMAIN reqs :
          /\ (reqs[i].kind = "callback" /\ Handled(i)) =>
                /\ reqs'[i].pc = "done" =>
                      /\ UNCHANGED <<samlChan, errChan, gotSAML, w_pc, w_result>>
                      /\ reqs'[i].resp =
                            IF reqs[i].method # "POST" THEN "405"
                            ELSE IF ~reqs[i].formOK \/ reqs[i].saml = "" THEN "400"
                            ELSE "503"
                /\ reqs'[i].pc = "sent" => IsSubmission(reqs[i]) /\ Len(samlChan) = 0
                /\ reqs'[i].resp = "503" => Len(samlChan) = 1
          /\ (reqs[i].kind = "callback" /\ reqs[i].pc = "sent" /\ reqs'[i].pc = "done") =>
                reqs'[i].resp = "success"]_vars

\* C5 witness: a GET that carries an assertion was answered 405.
C5_Witness ==
    \E i \in DOMAIN reqs :
        reqs[i].kind = "callback" /\ reqs[i].method = "GET" /\ reqs[i].saml = "a"
            /\ reqs[i].resp = "405"

\* ---------------------------------------------------------------- the wait

\* C6 as stated: WaitForSAML returns the event that happened first (the
\* first accepted assertion, the server error, or the timeout).
C6_FirstEventWins == w_pc = "returned" => w_result.kind = first

\* C6, amended: WaitForSAML returns the event that happened first, unless
\* that event and the one it returns were both pending already when its
\* select was reached (then the select takes either); an assertion it
\* returns is the payload of an accepted submission, an error it returns
\* is the serve goroutine's.
C6_FirstEventOrPendingPair ==
    w_pc = "returned" =>
        /\ w_result.kind = first \/ {w_result.kind, first} \subseteq eventsAtEntry
        /\ w_result.kind = "saml" => \E i \in Accepted : reqs[i].saml = w_result.val
        /\ w_result.kind = "err" => serve_pc = "failed"
        /\ w_result.kind \in {"saml", "err", "timeout"}

\* C6 witness: the assertion and the server error were both pending when
\* WaitForSAML was called, and it has returned.
C6_Witness == w_pc = "returned" /\ eventsAtEntry = {"saml", "err"}

\* C7: a WaitForSAML that blocks returns in the end, with one of the three
\* outcomes, even if no submission arrives and Serve never fails.
C7_WaitTerminates ==
    /\ (w_pc = "blocked") ~> (w_pc = "returned")
    /\ [](w_pc = "returned" => w_result.kind \in {"saml", "err", "timeout"})

\* C7 witness: the wait ended by its timeout, with no request ever received
\* and the server still serving.
C7_Witness ==
    /\ w_pc = "returned" /\ w_result.kind = "timeout"
    /\ reqs = <<>> /\ serve_pc = "accepting"

\* --------------------------------------------------------------- the flow

\* C8: once Start has succeeded, Shutdown has been invoked when
\* AuthenticateWithBrowser has returned, on every return path.
C8_ShutdownOnEveryReturn ==
    (pc = "done" /\ serve_pc # "none") => (shutdownCalled /\ listener = "closed")

\* C8 witness: the flow returned because installing the extension failed,
\* and Shutdown was invoked.
C8_Witness ==
    pc = "done" /\ result = "failed to install extension" /\ shutdownCalled

\* C9 as stated: openBrowser is called only while the listener is bound and
\* the server is serving, and never after a failed bind.
C9_OpenedOnlyWhileServing ==
    /\ openedWhile \in {"never", "accepting"}
    /\ result = "failed to start callback server" => openedWhile = "never"

\* C9, amended: openBrowser is called only after Start has returned without
\* error, that is after net.Listen has bound the port and the serve
\* goroutine has been started (it may not have reached its accept loop yet,
\* or may have failed already), and never after a failed bind.
C9_OpenedOnlyAfterStart ==
    /\ openedWhile \in {"never", "spawned", "accepting", "failed"}
    /\ openedWhile # "never" => listener # "unbound"
    /\ result = "failed to start callback server" => openedWhile = "never"

\* C9 witness: the browser was opened before the serve goroutine ran.
C9_Witness == openedWhile = "spawned"

\* The flow a configuration resolves to: Auto resolves to OIDC if a client
\* id is configured, else to SAMLBrowser if an app id is, else to OIDC.
ResolvedFlow(c) ==
    IF c.AuthFlow \in {"", "auto"}
    THEN IF c.OIDCClientID # "" THEN "oidc"
         ELSE IF c.AWSAcctFedAppID # "" THEN "saml-browser"
         ELSE "oidc"
    ELSE c.AuthFlow

\* A field the resolved flow requires is absent.
RequiredFieldMissing(c) ==
    \/ c.OrgDomain = ""
    \/ ResolvedFlow(c) = "oidc" /\ c.OIDCClientID = ""
    \/ ResolvedFlow(c) \in {"saml-browser", "saml_browser"} /\ c.AWSAcctFedAppID = ""

\* C10: with a required field absent, no network request is sent and no
\* listener is bound, and the run ends with a configuration error.
C10_FailsFastOnMissingField ==
    RequiredFieldMissing(cfg) =>
        /\ ~netSent
        /\ listener = "unbound"
        /\ pc = "done" => result \in ConfigErrors

\* --------------------------------------------------- the dispatch of flows

\* Authenticate has been entered and has dispatched.
AuthenticateRan ==
    /\ pc \notin {"NewConfig", "runWebAuth", "Authenticate"}
    /\ runWebAuthError(cfg) = "none"

\* C11: Authenticate invokes exactly one sub-flow when the flow resolves to
\* oidc or to saml-browser, never a second one whatever the first returned,
\* and the run ends with what that sub-flow returned; for any other flow it
\* invokes none and ends with the unknown-flow error.
C11_ExactlyOneSubFlow ==
    /\ Len(invoked) <= 1
    /\ AuthenticateRan =>
        /\ ResolvedFlow(cfg) = "oidc" => invoked = <<"AuthenticateWithOIDC">>
        /\ ResolvedFlow(cfg) \in {"saml-browser", "saml_browser"} =>
               invoked = <<"AuthenticateWithBrowser">>
        /\ ResolvedFlow(cfg) \notin {"oidc", "saml-browser", "saml_browser"} =>
               /\ invoked = <<>>
               /\ pc = "done"
               /\ result = "unknown authentication flow"
        /\ (pc = "done" /\ invoked # <<>>) => (subResult # "none" /\ result = subResult)

\* A sub-flow was invoked, it failed, and the run is over.
C11_Witness ==
    /\ pc = "done"
    /\ invoked = <<"AuthenticateWithOIDC">>
    /\ subResult \notin {"none", "ok"}

\* C12: with the flow Auto, whatever the combination of client id and
\* federation app id, both places that resolve the flow (runWebAuth, before
\* it validates, and Authenticate, before it dispatches) resolve it to OIDC
\* if the client id is set, else to SAMLBrowser if the app id is set, else
\* to OIDC.  (Without an organization domain runWebAuth returns before it
\* resolves anything.)
C12_AutoResolution ==
    (pc \notin {"NewConfig", "runWebAuth"} /\ cfg.AuthFlow = "auto" /\ cfg.OrgDomain # "") =>
        /\ runWebAuthFlow(cfg) = ResolvedFlow(cfg)
        /\ AuthenticateFlow(cfg) = ResolvedFlow(cfg)

\* ------------------------------------------------------ the device-flow poll

\* pollForAccessToken has been called.
PollerEntered ==
    /\ displayed
    /\ pc \notin {"displayAuthorizationURL", "pollForAccessToken"}

\* pollForAccessToken has been called and is over.
PollerOver == PollerEntered /\ ~Polling

\* The error codes that do not end a poll.
Benign == {"", "authorization_pending", "slow_down"}

\* The provider has given the poller neither a token nor a terminal error.
NeitherTokenNorTerminal == lastResp.token = "" /\ lastResp.error \in Benign

TimedOut ==
    /\ pc = "done"
    /\ result = "failed to obtain access token: authentication timed out"

\* C13: a poll to which the provider gives neither a token nor a terminal
\* error ends in one way only, with the timeout error once the deadline has
\* fired, never with the denial error and never otherwise.
C13_EndsOnlyByTimeout ==
    (PollerOver /\ NeitherTokenNorTerminal) => (TimedOut /\ timeout = "fired")

\* The poll was ended by the provider's denial.
Denied ==
    /\ pc = "done"
    /\ result = "failed to obtain access token: authentication failed"

\* This step is the arrival of a JSON response to the poll attempt in flight.
ResponseArrives == pc = "Do" /\ pc' # "Do" /\ lastResp'.kind = "response"

\* C14: a response carrying an error other than authorization_pending and
\* slow_down ends the poll at once with the denial error, and no poll
\* attempt follows; a response carrying authorization_pending or slow_down
\* leaves the poller polling, at its select, ready for the next tick.
C14_ErrorDecides ==
    [][/\ ResponseArrives =>
            /\ lastResp'.error \notin Benign => (Denied' /\ polls' = polls)
            /\ lastResp'.error \in {"authorization_pending", "slow_down"} =>
                   (Selecting' /\ result' = "none" /\ ticker' = ticker /\ timeout' = timeout)
       /\ Denied => polls' = polls]_vars

\* C14, for responses without an access token: an error other than
\* authorization_pending and slow_down ends the poll at once with the
\* denial error, and no poll attempt follows; authorization_pending or
\* slow_down leaves the poller polling, at its select, ready for the next
\* tick.  (A response that carries an access token ends the poll with that
\* token, whatever error it carries.)
C14_ErrorDecidesWithoutToken ==
    [][/\ (ResponseArrives /\ lastResp'.token = "") =>
            /\ lastResp'.error \notin Benign => (Denied' /\ polls' = polls)
            /\ lastResp'.error \in {"authorization_pending", "slow_down"} =>
                   (Selecting' /\ result' = "none" /\ ticker' = ticker /\ timeout' = timeout)
       /\ (ResponseArrives /\ lastResp'.token # "") => pc' = "oidcRemainder"
       /\ Denied => polls' = polls]_vars

\* After a slow_down without a token the poller has taken the next tick and
\* its next request is in flight.
C14_Witness ==
    /\ pc = "Do"
    /\ lastResp = [kind |-> "response", token |-> "", error |-> "slow_down"]
    /\ polls = 2

\* The outcomes of a poll attempt that are failures of the attempt itself.
Transient == {"request error", "connection error", "invalid JSON"}

\* This step is a poll attempt failing: its request could not be built (the
\* tick is consumed and nothing is sent), or Do failed, or the body was not
\* JSON.
AttemptFails ==
    \/ Selecting /\ Selecting' /\ tickerC /\ ~tickerC'
    \/ pc = "Do" /\ pc' # "Do" /\ lastResp'.kind \in {"connection error", "invalid JSON"}

\* C15: a poll attempt that fails (request construction error, connection
\* error, body that is not JSON) does not end the poll and changes nothing
\* of its state: the poller is at its select again, with the same ticker,
\* the same deadline and no result, ready for the next tick; and a poll
\* that has made attempts ends only by a token, by a terminal error of the
\* provider, or by the deadline.
C15_TransientFailuresAreSkipped ==
    /\ [][AttemptFails =>
            /\ lastResp'.kind \in Transient
            /\ Selecting'
            /\ result' = "none"
            /\ subResult' = "none"
            /\ ticker' = ticker
            /\ timeout' = timeout
            /\ polls' = polls
            /\ deviceAuth' = deviceAuth]_vars
    /\ []((PollerOver /\ lastResp.kind # "none") =>
            \/ lastResp.token # ""
            \/ Denied /\ lastResp.kind = "response" /\ lastResp.error \notin Benign
            \/ TimedOut /\ timeout = "fired")

\* After an attempt whose body was not JSON, the next request is in flight.
C15_Witness ==
    /\ pc = "Do"
    /\ lastResp.kind = "invalid JSON"

\* ------------------------------------------------------- the tick interval

\* An int64 widened to twelve bytes, in which a product with Second is exact.
Widen(x) == x \o [i \in 1..4 |-> IF x[8] >= 128 THEN 255 ELSE 0]

\* The Duration d is exactly n seconds.
IsSeconds(d, n) == Widen(d) = MulBytes(Widen(n), Second, 12, 1, 0)

\* x <= y for int64 values that are not negative, from byte k downwards.
RECURSIVE LessEqFrom(_, _, _)
LessEqFrom(x, y, k) ==
    IF k = 0 THEN TRUE
    ELSE IF x[k] # y[k] THEN x[k] < y[k]
    ELSE LessEqFrom(x, y, k - 1)

\* n is from 1 to 9223372036.
InRange(n) == n[8] < 128 /\ n # Int64(0) /\ LessEqFrom(n, MaxSeconds, 8)

C17_OneRequestInFlight ==
    /\ inflight <= 1
    /\ inflight = 1 <=> pc = "Do"

\* A tick has arrived while the second request is in flight.
C17_Witness ==
    /\ pc = "Do"
    /\ inflight = 1
    /\ tickerC
    /\ polls = 2

\* ------------------------------------------------ the order of the OIDC flow

\* The ways a device-authorization request that was sent can fail.
DeviceFailures == {"transport error", "status not 200", "unparsable body"}

\* C18: the OIDC flow requests, then displays, then polls: nothing is
\* displayed and no poll is made unless the one device-authorization
\* request succeeded; a transport error, a status other than 200 or a body
\* that does not parse ends the flow at once, with exactly one request sent
\* and none repeated.
C18_RequestDisplayPoll ==
    /\ deviceRequests <= 1
    /\ pc = "displayAuthorizationURL" => ~displayed
    /\ (displayed \/ pc = "displayAuthorizationURL") =>
           (deviceAuth.outcome = "ok" /\ deviceRequests = 1)
    /\ (pc \in {"pollForAccessToken", "select", "Do", "panicked", "oidcRemainder"}
           \/ polls > 0 \/ ticker # <<>> \/ timeout # "unset") => displayed
    /\ deviceAuth.outcome \in DeviceFailures =>
           /\ pc = "done"
           /\ result = "device authorization failed"
           /\ deviceRequests = 1
           /\ ~displayed
           /\ written \cap {"user_code", "verification_uri", "verification_uri_complete"} = {}
           /\ polls = 0

\* The provider answered the device-authorization request with a status
\* other than 200 and the flow is over.
C18_Witness ==
    /\ pc = "done"
    /\ deviceAuth.outcome = "status not 200"
    /\ deviceRequests = 1

\* --------------------------------------------------------- the device code

\* C19: whatever the switches of the configuration (OpenBrowser, Debug,
\* DebugAPICalls), the device code is in nothing the program writes to
\* stdout or stderr.
C19_DeviceCodeNeverWritten == "device_code" \notin written

\* ----------------------------------------------------- the roles extracted

\* The text of an AttributeValue has exactly one comma.
OneComma(v) == Cardinality({i \in DOMAIN v : v[i] = ","}) = 1

\* Element i of the document is an AttributeValue of the Role attribute:
\* the nearest Attribute before it is the Role attribute.
UnderRole(doc, i) ==
    /\ doc[i].tag = "AttributeValue"
    /\ \E j \in 1..(i - 1) :
          /\ doc[j] = [tag |-> "Attribute", Name |-> RoleAttribute, Value |-> <<>>]
          /\ \A k \in (j + 1)..(i - 1) : doc[k].tag = "AttributeValue"

\* The document yields no grant: it has no Role attribute, or Role
\* attributes without values, or only values that are not two parts.
YieldsNoGrant(doc) == \A i \in DOMAIN doc : UnderRole(doc, i) => ~OneComma(doc[i].Value)

\* C20: for every assertion that decodes and parses and yields no grant,
\* extractRolesFromSAML returns the 'no roles' error and no list of grants.
C20_NoRolesIsAnError ==
    (extracted # NotExtracted /\ assertion.decodes /\ assertion.parses
        /\ YieldsNoGrant(assertion.doc)) =>
        extracted = [roles |-> <<>>, err |-> "no IAM roles found in SAML assertion"]

\* The function was called on an assertion whose Role attribute has one
\* value, of three parts.
C20_Witness ==
    /\ extracted # NotExtracted
    /\ assertion.decodes /\ assertion.parses
    /\ YieldsNoGrant(assertion.doc)
    /\ \E i \in DOMAIN assertion.doc :
          /\ UnderRole(assertion.doc, i)
          /\ assertion.doc[i].Value = <<RoleArn, ",", PrincipalArn, ",", PrincipalArn>>

\* The positions of the values that split into exactly two parts and stand
\* under a Role attribute.
TwoPartPositions(doc) == {i \in DOMAIN doc : UnderRole(doc, i) /\ OneComma(doc[i].Value)}

\* The k-th of these values in document order.
TwoPartValue(doc, k) ==
    doc[CHOOSE i \in TwoPartPositions(doc) :
            Cardinality({j \in TwoPartPositions(doc) : j <= i}) = k].Value

\* The text before and after the only comma of a value.
BeforeComma(v) == SubSeq(v, 1, (CHOOSE i \in DOMAIN v : v[i] = ",") - 1)
AfterComma(v) == SubSeq(v, (CHOOSE i \in DOMAIN v : v[i] = ",") + 1, Len(v))

\* The part holds the marker ":role/".
HasMarker(part) == \E i \in DOMAIN part : part[i] = RoleArn

\* extractRolesFromSAML was called on an assertion that decodes and parses.
Parsed == extracted # NotExtracted /\ assertion.decodes /\ assertion.parses

\* C21: for every Role attribute value of exactly two parts, the grant made
\* of it has the two parts as its fields, and whenever one of the parts holds
\* the role marker the role field holds it: the part with the marker is the
\* role and the other part the principal, in whichever order they stand.
C21_MarkedPartIsTheRole ==
    Parsed =>
        \A k \in DOMAIN extracted.roles :
            k <= Cardinality(TwoPartPositions(assertion.doc)) =>
                LET v == TwoPartValue(assertion.doc, k)
                    grant == extracted.roles[k]
                IN  /\ grant \in {[RoleARN |-> BeforeComma(v), PrincipalARN |-> AfterComma(v)],
                                  [RoleARN |-> AfterComma(v), PrincipalARN |-> BeforeComma(v)]}
                    /\ (HasMarker(BeforeComma(v)) \/ HasMarker(AfterComma(v)))
                          => HasMarker(grant.RoleARN)
                    /\ (HasMarker(BeforeComma(v)) /\ ~HasMarker(AfterComma(v)))
                          => grant.PrincipalARN = AfterComma(v)
                    /\ (HasMarker(AfterComma(v)) /\ ~HasMarker(BeforeComma(v)))
                          => grant.PrincipalARN = BeforeComma(v)

\* The function was called on an assertion that lists a pair with the
\* principal first and a pair with the role first, and returned both grants
\* with the role ARN as the role.
C21_Witness ==
    /\ Parsed
    /\ Len(extracted.roles) = 2
    /\ TwoPartValue(assertion.doc, 1) = <<PrincipalArn, ",", RoleArn>>
    /\ TwoPartValue(assertion.doc, 2) = <<RoleArn, ",", PrincipalArn>>
    /\ extracted.roles[1] = [RoleARN |-> <<RoleArn>>, PrincipalARN |-> <<PrincipalArn>>]
    /\ extracted.roles[2] = [RoleARN |-> <<RoleArn>>, PrincipalARN |-> <<PrincipalArn>>]

\* C22: the grants extractRolesFromSAML returns are, in document order, one
\* for each value that stands under a Role attribute and splits into exactly
\* two parts; values of one part or of three or more parts, and values of
\* attributes with another name, add nothing.
C22_OneGrantPerTwoPartValue ==
    Parsed =>
        /\ Len(extracted.roles) = Cardinality(TwoPartPositions(assertion.doc))
        /\ \A k \in DOMAIN extracted.roles :
              LET v == TwoPartValue(assertion.doc, k)
              IN  {extracted.roles[k].RoleARN, extracted.roles[k].PrincipalARN}
                      = {BeforeComma(v), AfterComma(v)}

\* The function was called on an assertion with two Role attributes, each
\* with one two-part value, and returned the grant of the first attribute
\* before the grant of the second.
C22_Witness ==
    /\ Parsed
    /\ Len(assertion.doc) = 4
    /\ \A i \in {1, 3} : assertion.doc[i].tag = "Attribute"
                            /\ assertion.doc[i].Name = RoleAttribute
    /\ assertion.doc[2].Value = <<RoleArn, ",", RoleArn>>
    /\ assertion.doc[4].Value = <<RoleArn, ",", PrincipalArn>>
    /\ extracted.roles = <<[RoleARN |-> <<RoleArn>>, PrincipalARN |-> <<RoleArn>>],
                           [RoleARN |-> <<RoleArn>>, PrincipalARN |-> <<PrincipalArn>>]>>

\* ----------------------------------------------------- the role selected

\* selectRole has been called and has returned.
SelectRoleReturned == selected # NotSelected

\* A role preference is configured.
Preferred == cfg.AWSIAMRole # <<>>

\* The positions of the grants whose role identifier contains the preference.
Matching == {i \in DOMAIN roles : Contains(roles[i].RoleARN, cfg.AWSIAMRole)}

\* selectRole returned the i-th grant, role and principal, and no error.
Returned(i) ==
    selected = [RoleARN |-> roles[i].RoleARN, PrincipalARN |-> roles[i].PrincipalARN,
                err |-> "nil"]

\* selectRole returned the error and no grant.
Failed(err) == selected = [RoleARN |-> <<>>, PrincipalARN |-> <<>>, err |-> err]

\* selectRole neither printed the list of roles nor read from stdin.
Silent == ~scanned /\ "Available AWS roles" \notin written

\* C23: with a preference that no grant's role identifier contains,
\* selectRole fails with the 'configured role not found' error, whatever the
\* list, a list of one grant included: it returns no grant, does not
\* prompt, and the flow ends there.
C23_NoMatchIsFatal ==
    (SelectRoleReturned /\ Preferred /\ Matching = {}) =>
        /\ Failed("configured role not found in available roles")
        /\ Silent
        /\ pc = "done"
        /\ result = "failed to select role"
        /\ exchange = <<>>

\* selectRole failed on a list of one grant that the preference does not
\* match.
C23_Witness ==
    /\ SelectRoleReturned
    /\ Preferred
    /\ Matching = {}
    /\ Len(roles) = 1
    /\ Failed("configured role not found in available roles")

\* C24: with a preference that some grant's role identifier contains,
\* selectRole returns the first such grant of the list, its role and its
\* principal, without prompting, however many grants match.
C24_FirstMatchIsReturned ==
    (SelectRoleReturned /\ Preferred /\ Matching # {}) =>
        /\ \E i \in Matching : (\A j \in Matching : i <= j) /\ Returned(i)
        /\ Silent

\* Two different grants match the preference, neither is the first of the
\* list, and selectRole returned the earlier one.
C24_Witness ==
    /\ SelectRoleReturned
    /\ Preferred
    /\ Matching = {2, 3}
    /\ roles[2] # roles[3]
    /\ Returned(2)

\* C25: with no preference and exactly one grant, selectRole returns that
\* grant without printing the list and without reading from stdin.
C25_SingleGrantNoPrompt ==
    (SelectRoleReturned /\ ~Preferred /\ Len(roles) = 1) =>
        /\ Returned(1)
        /\ Silent

\* selectRole returned the only grant, while a line that is no number was
\* waiting on stdin.
C25_Witness ==
    /\ SelectRoleReturned
    /\ ~Preferred
    /\ Len(roles) = 1
    /\ stdin = <<"x">>
    /\ Returned(1)
    /\ Silent

\* The line typed is the decimal numeral of k.
Typed(k) == k \in 0..9 /\ stdin = <<DigitChars[k + 1]>>

\* C26: with no preference and two or more grants, the line typed at the
\* prompt selects: the numeral of k, 1 <= k <= n, the k-th grant of the
\* list; the empty line, the first grant.
C26_ChoiceSelects ==
    (SelectRoleReturned /\ ~Preferred /\ Len(roles) >= 2) =>
        /\ \A k \in 1..Len(roles) : Typed(k) => Returned(k)
        /\ stdin = <<>> => Returned(1)
        /\ scanned

\* The user typed 2 before a list whose first two grants differ, and
\* selectRole returned the second.
C26_Witness ==
    /\ SelectRoleReturned
    /\ ~Preferred
    /\ Len(roles) >= 2
    /\ roles[1] # roles[2]
    /\ Typed(2)
    /\ Returned(2)

\* The line typed is a number: an optional sign and decimal digits.
Numeric == Atoi(stdin).err = "nil"

\* C27 as stated: with no preference and two or more grants, every number
\* typed that lies outside 1..n (0, a negative number, n+1) makes selectRole
\* fail with the 'invalid selection' error and select no grant.
C27_OutOfRangeIsFatal ==
    (SelectRoleReturned /\ ~Preferred /\ Len(roles) >= 2
        /\ Numeric /\ Atoi(stdin).value \notin 1..Len(roles)) =>
        Failed("invalid role selection")

\* C28 as stated: with no preference and two or more grants, a line that is
\* not empty and not a number makes selectRole fail: it returns an error
\* and no grant, and no exchange takes place.
C28_MalformedIsFatal ==
    (SelectRoleReturned /\ ~Preferred /\ Len(roles) >= 2
        /\ stdin # <<>> /\ ~Numeric) =>
        /\ selected.err # "nil"
        /\ selected.RoleARN = <<>>
        /\ exchange = <<>>

\* ------------------------------------------------------------ the exchange

\* C29 as stated: whatever the session duration of the config file and the
\* value of aws-session-duration (zero and negative numbers included, or
\* neither set), AssumeRoleWithSAML is only ever called with a strictly
\* positive DurationSeconds.
C29_DurationIsPositive ==
    \A i \in DOMAIN exchange : exchange[i].input.DurationSeconds > 0

\* How often a stage was invoked.
Invocations(fn) == Cardinality({i \in DOMAIN calls : calls[i] = fn})

\* C30: in one run AssumeRoleWithSAML is called at most once; when it
\* returns an error the flow has ended with that error, the exchange being
\* the last stage invoked: it is not called again and no output is made.
C30_ExchangeAtMostOnce ==
    /\ Len(exchange) <= 1
    /\ Invocations("assumeRoleWithSAML") <= 1
    /\ (exchange # <<>> /\ exchange[1].outcome = "error") =>
           /\ pc = "done"
           /\ result = "failed to assume role"
           /\ calls[Len(calls)] = "assumeRoleWithSAML"
           /\ Invocations("outputCredentials") = 0

\* The exchange failed in the browser flow and the run is over.
C30_Witness ==
    /\ invoked = <<"AuthenticateWithBrowser">>
    /\ Len(exchange) = 1
    /\ exchange[1].outcome = "error"
    /\ pc = "done"
    /\ result = "failed to assume role"

\* ------------------------------------------------------------- the output

\* The run is over and returned no error.
Succeeded_Run == pc = "done" /\ result = "ok"

\* The credentials were emitted once, to stdout, in the given form.
EmittedToStdout(form) ==
    output = <<[to |-> "stdout", as |-> form, profile |-> ""]>>

\* C31 as stated: a successful run with format env-var (the default) emits
\* the credentials as export lines on stdout, and one with format json emits
\* them as the JSON object on stdout.
C31_FormatSelectsTheOutput ==
    Succeeded_Run =>
        /\ cfg.Format = "env-var" => EmittedToStdout("export lines")
        /\ cfg.Format = "json" => EmittedToStdout("json")

\* The configurations NewConfig returns when neither the config file nor the
\* command line nor the environment names a profile or asks for the
\* credentials file.
NothingAsked ==
    {NewConfigOf(raw) : raw \in {r \in RawConfigs : r.Profile = ""
                                                    /\ ~r.WriteAWSCredentials}}

\* C32 as stated: a successful run in which no profile was supplied and the
\* credentials file was not asked for emits the credentials to stdout and
\* does not write ~/.aws/credentials.
C32_FileOnlyWhenAsked ==
    (Succeeded_Run /\ cfg \in NothingAsked) =>
        /\ output # <<>>
        /\ \A i \in DOMAIN output : output[i].to = "stdout"

\* ------------------------------------------------------ the order of stages

\* The stages after the assertion, in the order of the flows, and the error
\* a flow returns when one of the first three returns an error.
StageOrder ==
    <<"extractRolesFromSAML", "selectRole", "assumeRoleWithSAML", "outputCredentials">>

StageErrors ==
    <<"failed to extract roles from SAML", "failed to select role",
      "failed to assume role">>

\* The errors of a flow that did not obtain the assertion.
NoAssertionErrors ==
    {"failed to receive SAML assertion", "failed to get SAML assertion",
     "failed to discover AWS Federation app"}

\* Stage k was invoked and did not deliver what the next stage needs.
StageFailed(k) ==
    /\ Len(calls) >= k
    /\ CASE k = 1 -> extracted.err # "nil"
         [] k = 2 -> selected.err # "nil"
         [] k = 3 -> \A i \in DOMAIN exchange : exchange[i].outcome # "credentials"

\* The stages are invoked in their order, each at most once, and only with
\* the assertion; the output is made at most once and only after an exchange
\* that gave credentials.
StagesInOrder ==
    /\ \E n \in 0..4 : calls = SubSeq(StageOrder, 1, n)
    /\ (pc = "done" /\ result \in NoAssertionErrors) => calls = <<>>
    /\ Len(output) <= 1
    /\ (output # <<>> \/ Len(calls) = 4) =>
           /\ Len(exchange) = 1
           /\ exchange[1].outcome = "credentials"

\* An assertion that does not decode or does not parse gives an error and
\* no grants.
ParseFailureIsAnError ==
    (calls # <<>> /\ (~assertion.decodes \/ ~assertion.parses)) =>
        /\ extracted.err \in {"failed to decode SAML", "failed to parse SAML XML"}
        /\ extracted.roles = <<>>

\* C33 as stated: the stages run in the order extractRolesFromSAML,
\* selectRole, assumeRoleWithSAML, outputCredentials, after the assertion was
\* obtained; when a stage fails (a parse failure included) the flow has
\* returned that stage's error and no later stage was invoked; the
\* credentials are output at most once and only after a successful exchange.
C33_StagesInOrder ==
    /\ StagesInOrder
    /\ ParseFailureIsAnError
    /\ \A k \in 1..3 :
        StageFailed(k) =>
            /\ pc = "done"
            /\ result = StageErrors[k]
            /\ calls = SubSeq(StageOrder, 1, k)
            /\ output = <<>>

\* ------------------------------------------------- the resolution of Auto

\* The sub-flow a flow value stands for in Authenticate's switch.
SubFlowOf(flow) ==
    IF flow = "oidc" THEN <<"AuthenticateWithOIDC">>
    ELSE IF flow \in {"saml-browser", "saml_browser"} THEN <<"AuthenticateWithBrowser">>
    ELSE <<>>

\* C34 as stated: nothing is sent on the network before Authenticate has
\* dispatched, and for every configuration with which a sub-flow was
\* invoked, the flow whose prerequisites runWebAuth validated is the flow
\* Authenticate dispatched to.
C34_ValidatedFlowIsDispatched ==
    /\ pc \in {"NewConfig", "runWebAuth", "Authenticate"} => ~netSent
    /\ invoked # <<>> =>
        /\ invoked = SubFlowOf(runWebAuthFlow(cfg))
        /\ runWebAuthFlow(cfg) = AuthenticateFlow(cfg)

\* --------------------------------------------- the deadline of the poller

\* C35 as stated: once the deadline timer has fired and the poller is at its
\* select, no further token request is issued, and the only way the poller
\* leaves the select is with the timeout error.
C35_DeadlineWins ==
    [][(timeout = "fired" /\ Selecting) =>
           /\ polls' = polls
           /\ inflight' = inflight
           /\ pc' \in {"select", "done"}
           /\ pc' = "done" => TimedOut']_vars

\* ------------------------------------------------------ the Displaying step

\* C36: whatever the device authorization and whatever becomes of opening
\* the browser, the step taken from the Displaying step calls
\* pollForAccessToken: the flow has returned nothing, and the URIs and the
\* user code are displayed.
C36_DisplayNeverAborts ==
    [][pc = "displayAuthorizationURL" =>
           /\ pc' = "pollForAccessToken"
           /\ result' = "none"
           /\ subResult' = "none"
           /\ displayed']_vars

\* The browser was asked for and could not be started (the warning is on
\* stderr), and the poller has been entered.
C36_Witness ==
    /\ flags.OpenBrowser
    /\ "open browser warning" \in written
    /\ Polling
    /\ result = "none"

\* ------------------------------------------------------- the status probe

\* This step belongs to the status probe i: it arrives or it is answered.
StatusStep(i) ==
    /\ i \in DOMAIN reqs'
    /\ reqs'[i].kind = "status"
    /\ i \in DOMAIN reqs => reqs'[i] # reqs[i]

\* C37: a step of a GET /status request, its arrival or its answer, leaves
\* the assertion channel, the error channel, the delivered flag, WaitForSAML
\* and what it returned, the flow and every other request as they are.
C37_StatusIsReadOnly ==
    [][\A i \in 1..MaxRequests :
          StatusStep(i) =>
              /\ samlChan' = samlChan
              /\ errChan' = errChan
              /\ gotSAML' = gotSAML
              /\ w_pc' = w_pc
              /\ w_result' = w_result
              /\ pc' = pc
              /\ result' = result
              /\ \A j \in DOMAIN reqs : j # i => reqs'[j] = reqs[j]]_vars

\* A probe was answered 200 and WaitForSAML returned the assertion of the
\* submission.
C37_Witness ==
    /\ \E i \in DOMAIN reqs : reqs[i].kind = "status" /\ reqs[i].resp = "200"
    /\ \E j \in DOMAIN reqs : reqs[j].kind = "callback" /\ reqs[j].resp = "success"
                                 /\ w_result = [kind |-> "saml", val |-> reqs[j].saml]
    /\ gotSAML

\* ------------------------------------------------------ the tick interval

\* C38 as stated: whatever interval the provider returned, negative values
\* included, once pollForAccessToken has been called its tick interval is
\* strictly positive, the ticker exists with that interval and the poller
\* has not panicked in creating it.
C38_TickIntervalIsPositive ==
    PollerEntered =>
        /\ ~NewTickerPanics(interval(deviceAuth))
        /\ ticker = interval(deviceAuth)
        /\ ~(pc = "panicked" /\ calls = <<>>)

\* ------------------------------------------- what the exchange is given

\* C39: in both flows the exchange is called with the assertion the roles
\* were extracted from and with the role and the principal of the grant
\* selectRole returned, which are the role and the principal of one and the
\* same grant of the extracted list.
C39_ExchangeGetsTheSelectedGrant ==
    \A k \in DOMAIN exchange :
        /\ exchange[k].input.SAMLAssertion = assertion
        /\ extracted = extractRolesFromSAML(assertion)
        /\ extracted.err = "nil"
        /\ selected.err = "nil"
        /\ exchange[k].input.RoleArn = selected.RoleARN
        /\ exchange[k].input.PrincipalArn = selected.PrincipalARN
        /\ \E i \in DOMAIN extracted.roles :
            /\ extracted.roles[i].RoleARN = exchange[k].input.RoleArn
            /\ extracted.roles[i].PrincipalARN = exchange[k].input.PrincipalArn

\* In the OIDC flow the second of two grants with different principals was
\* chosen at the prompt and the exchange was called.
C39_Witness ==
    /\ invoked = <<"AuthenticateWithOIDC">>
    /\ Len(extracted.roles) = 2
    /\ extracted.roles[1].PrincipalARN # extracted.roles[2].PrincipalARN
    /\ scanned
    /\ selected.PrincipalARN = extracted.roles[2].PrincipalARN
    /\ Len(exchange) = 1

\* ------------------------------------------------------ the delivered flag

\* A probe of /status has been answered 200.
Answered200 == \E i \in DOMAIN reqs : reqs[i].kind = "status" /\ reqs[i].resp = "200"

\* C40: once a GET /status has been answered 200, the delivered flag stays
\* set and every GET /status answered from then on is answered 200,
\* whatever is submitted meanwhile and whether or not WaitForSAML has taken
\* the assertion.
C40_DeliveredIsMonotonic ==
    [][Answered200 =>
           /\ gotSAML
           /\ gotSAML'
           /\ \A j \in DOMAIN reqs :
                (reqs[j].kind = "status" /\ reqs[j].resp = "none"
                    /\ reqs'[j].resp # "none") => reqs'[j].resp = "200"]_vars

\* Two probes were answered 200, the second when WaitForSAML had taken the
\* assertion.
C40_Witness ==
    /\ Consumed
    /\ samlChan = <<>>
    /\ Len(reqs) = 3
    /\ reqs[1].kind = "callback"
    /\ reqs[2].kind = "status" /\ reqs[2].resp = "200"
    /\ reqs[3].kind = "status" /\ reqs[3].resp = "200"

====
